---- MODULE Spec2Model ----
(***************************************************************************)
(* Model of the two AI request handlers of ai-todo-manager:                *)
(*   POST /api/ai/generate-todo  ("Normalize")                             *)
(*   POST /api/ai/analyze-todos  ("Summarize")                             *)
(* A JavaScript string is a sequence of one-character strings, so that     *)
(* trim(), substring(), the regular expressions and Date parsing are       *)
(* computed on the characters.  The module is ASCII: the Hangul literals   *)
(* of the source are written with Latin capitals of the same length.       *)
(***************************************************************************)
EXTENDS Integers, Sequences, FiniteSets, TLC

(***************************************************************************)
(* Bounds of the model                                                     *)
(***************************************************************************)
\* largest number of substrings the handlers look for that one error
\* message carries
MaxKeywords == 2
\* longest run of white space put around or inside a generated string
MaxPad == 1
\* longest list the completion service returns
MaxList == 2
\* the longest task list of the statistics
MaxTasks == 3
\* the most rows public.todos holds
MaxRows == 2
\* the most tasks added through the page
MaxPageTodos == 1
\* invocations of the handlers in progress at once
MaxRequests == 2

(***************************************************************************)
(* JavaScript values                                                       *)
(***************************************************************************)
Undefined == [t |-> "undefined"]
Null == [t |-> "null"]
Str(s) == [t |-> "string", s |-> s]
Num(n) == [t |-> "number", n |-> n]
Arr(a) == [t |-> "array", a |-> a]
Obj == [t |-> "object"]

IsString(v) == v.t = "string"
IsArray(v) == v.t = "array"

\* ToBoolean(v) = false
Falsy(v) ==
  \/ v.t \in {"undefined", "null"}
  \/ v.t = "string" /\ v.s = <<>>
  \/ v.t = "number" /\ v.n = 0

(***************************************************************************)
(* Strings                                                                 *)
(***************************************************************************)
Rep(c, n) == [i \in 1..n |-> c]

Digits == <<"0", "1", "2", "3", "4", "5", "6", "7", "8", "9">>
IsDigit(c) == \E i \in 1..10 : Digits[i] = c
DigitVal(c) == (CHOOSE i \in 1..10 : Digits[i] = c) - 1
DigitChar(n) == Digits[n + 1]

\* the characters \s matches and trim() strips
IsWs(c) == c \in {" ", "\n"}

\* String.prototype.trim
Trim(s) ==
  IF \A i \in 1..Len(s) : IsWs(s[i]) THEN <<>>
  ELSE LET first == CHOOSE i \in 1..Len(s) :
                      ~IsWs(s[i]) /\ \A j \in 1..(i - 1) : IsWs(s[j])
           last == CHOOSE i \in 1..Len(s) :
                      ~IsWs(s[i]) /\ \A j \in (i + 1)..Len(s) : IsWs(s[j])
       IN SubSeq(s, first, last)

\* String.prototype.substring(0, n)
Substring0(s, n) == SubSeq(s, 1, IF n < Len(s) THEN n ELSE Len(s))

Ellipsis == <<".", ".", ".">>

\* s.replace(/\s+/g, " "): every maximal run of white space becomes one space
Fresh(e) == ~e.dup
CollapseWs(s) ==
  LET marked == [i \in 1..Len(s) |->
                   [c |-> s[i], dup |-> IsWs(s[i]) /\ i > 1 /\ IsWs(s[i - 1])]]
      kept == SelectSeq(marked, Fresh)
  IN [i \in 1..Len(kept) |-> IF IsWs(kept[i].c) THEN " " ELSE kept[i].c]

(***************************************************************************)
(* generate-todo: input validation and preprocessing                       *)
(***************************************************************************)
minInputLength == 2
maxInputLength == 500

preprocessInput(input) == CollapseWs(Trim(input))

\* validateInput measuring the input as given, not trimmed
validateInputUntrimmed(input) ==
  IF Falsy(input) \/ ~IsString(input)
    THEN [valid |-> FALSE, error |-> "input_required", status |-> 400]
  ELSE IF Len(input.s) < minInputLength
    THEN [valid |-> FALSE, error |-> "input_too_short", status |-> 400]
  ELSE IF Len(input.s) > maxInputLength
    THEN [valid |-> FALSE, error |-> "input_too_long", status |-> 400]
  ELSE [valid |-> TRUE, error |-> "none", status |-> 200]

\* validateInput: the tag stands for the message of the branch taken
validateInput(input) ==
  IF Falsy(input) \/ ~IsString(input)
    THEN [valid |-> FALSE, error |-> "input_required", status |-> 400]
  ELSE LET trimmed == Trim(input.s) IN
    IF Len(trimmed) = 0
      THEN [valid |-> FALSE, error |-> "input_empty", status |-> 400]
    ELSE IF Len(trimmed) < minInputLength
      THEN [valid |-> FALSE, error |-> "input_too_short", status |-> 400]
    ELSE IF Len(trimmed) > maxInputLength
      THEN [valid |-> FALSE, error |-> "input_too_long", status |-> 400]
    ELSE [valid |-> TRUE, error |-> "none", status |-> 200]

(***************************************************************************)
(* Calendar dates.  `now` is the UTC calendar day of the request instant;  *)
(* today = now.toISOString().split("T")[0].                                *)
(***************************************************************************)
Pad2(n) == <<DigitChar(n \div 10), DigitChar(n % 10)>>
Pad4(n) == <<DigitChar(n \div 1000), DigitChar((n \div 100) % 10)>> \o Pad2(n % 100)

\* Date.prototype.toISOString().split("T")[0] of the day (y, m, d)
toISODate(date) == Pad4(date.y) \o <<"-">> \o Pad2(date.m) \o <<"-">> \o Pad2(date.d)

\* MakeDay(y, m - 1, d): the day number of day d of month m of year y, where
\* a day past the end of the month runs on into the following month
MakeDay(y, m, d) ==
  LET yy == IF m <= 2 THEN y - 1 ELSE y
      era == yy \div 400
      yoe == yy - era * 400
      mp == IF m > 2 THEN m - 3 ELSE m + 9
      doy == (153 * mp + 2) \div 5 + d - 1
      doe == yoe * 365 + yoe \div 4 - yoe \div 100 + doy
  IN era * 146097 + doe - 719468

\* the day (y, m, d) of a day number
DateOfDay(n) ==
  LET z == n + 719468
      era == z \div 146097
      doe == z - era * 146097
      yoe == (doe - doe \div 1460 + doe \div 36524 - doe \div 146096) \div 365
      doy == doe - (365 * yoe + yoe \div 4 - yoe \div 100)
      mp == (5 * doy + 2) \div 153
      m == IF mp < 10 THEN mp + 3 ELSE mp - 9
  IN [y |-> yoe + era * 400 + (IF m <= 2 THEN 1 ELSE 0), m |-> m,
      d |-> doy - (153 * mp + 2) \div 5 + 1]

\* generate-todo line 106: now.getDay(), 0 for Sunday, of the day of `now` in
\* the time zone of the server, which is date.zone days from its UTC day
getDay(date) == (MakeDay(date.y, date.m, date.d) + date.zone + 4) % 7

\* line 115: (5 - currentDayOfWeek + 7) % 7 || 7
daysUntilFriday(date) ==
  IF (5 - getDay(date) + 7) % 7 = 0 THEN 7 ELSE (5 - getDay(date) + 7) % 7

\* line 110: (8 - currentDayOfWeek) % 7 || 7
daysUntilNextMonday(date) ==
  IF (8 - getDay(date)) % 7 = 0 THEN 7 ELSE (8 - getDay(date)) % 7

\* d = new Date(now); d.setDate(now.getDate() + n); d.toISOString().split("T")[0]:
\* n days after the instant, which is the UTC day of `now` plus n
plusDays(date, n) == toISODate(DateOfDay(MakeDay(date.y, date.m, date.d) + n))

\* /^\d{4}-\d{2}-\d{2}$/.test(s)
dateRegex(s) ==
  /\ Len(s) = 10
  /\ \A i \in {1, 2, 3, 4, 6, 7, 9, 10} : IsDigit(s[i])
  /\ s[5] = "-"
  /\ s[8] = "-"

Num2(s, i) == 10 * DigitVal(s[i]) + DigitVal(s[i + 1])
YearOf(s) == 100 * Num2(s, 1) + Num2(s, 3)
MonthOf(s) == Num2(s, 6)
DayOf(s) == Num2(s, 9)

NaN == [nan |-> TRUE, day |-> 0]

\* new Date(s + "T00:00:00") for s matching dateRegex, as the runtime of the
\* route handlers (Node.js) parses the date-time form: the month must be
\* 01..12 and the day 01..31 whatever the month; a day the month does not
\* have is carried into the next month.
parsedDate(s) ==
  IF MonthOf(s) \in 1..12 /\ DayOf(s) \in 1..31
    THEN [nan |-> FALSE, day |-> MakeDay(YearOf(s), MonthOf(s), DayOf(s))]
    ELSE NaN

\* /^([01]?[0-9]|2[0-3]):[0-5][0-9]$/.test(s)
timeRegex(s) ==
  \/ /\ Len(s) = 5
     /\ \/ s[1] \in {"0", "1"} /\ IsDigit(s[2])
        \/ s[1] = "2" /\ s[2] \in {"0", "1", "2", "3"}
     /\ s[3] = ":"
     /\ s[4] \in {"0", "1", "2", "3", "4", "5"}
     /\ IsDigit(s[5])
  \/ /\ Len(s) = 4
     /\ IsDigit(s[1])
     /\ s[2] = ":"
     /\ s[3] \in {"0", "1", "2", "3", "4", "5"}
     /\ IsDigit(s[4])

(***************************************************************************)
(* generate-todo: the declared output shape and the repair pass            *)
(***************************************************************************)
\* the literals of the source
placeholderTitle == <<"H", " ", "I">>      \* a Hangul syllable, a space, a Hangul syllable
defaultTime == <<"0", "9", ":", "0", "0">>
high == <<"h", "i", "g", "h">>
medium == <<"m", "e", "d", "i", "u", "m">>
low == <<"l", "o", "w">>
personal == <<"G", "I">>                   \* two Hangul syllables
work == <<"U", "M">>                       \* two Hangul syllables

PriorityEnum == {Str(high), Str(medium), Str(low)}

\* todoSchema accepts the value
todoSchemaAccepts(raw) ==
  /\ IsString(raw.title)
  /\ IsString(raw.description) \/ raw.description = Undefined
  /\ IsString(raw.due_date)
  /\ IsString(raw.due_time) \/ raw.due_time = Undefined
  /\ raw.priority \in PriorityEnum
  /\ \/ raw.category = Undefined
     \/ IsArray(raw.category)
          /\ \A i \in 1..Len(raw.category.a) : IsString(raw.category.a[i])

\* the value todoSchema yields for an accepted value: category has default([])
todoSchemaParse(raw) ==
  [raw EXCEPT !.category = IF raw.category = Undefined THEN Arr(<<>>) ELSE @]

titleMinLength == 1
titleMaxLength == 200
descriptionMaxLength == 1000

\* the title cut from the text as given, not from the trimmed text
processedTitleUntrimmedCut(title) ==
  LET t0 == IF Falsy(title) \/ Len(Trim(title.s)) = 0
              THEN placeholderTitle ELSE title.s
      t1 == Trim(t0)
  IN IF Len(t1) < titleMinLength THEN Str(placeholderTitle)
     ELSE IF Len(t1) > titleMaxLength
       THEN Str(Substring0(t0, titleMaxLength) \o Ellipsis)
     ELSE Str(t1)

\* lines 204-206 and 220-231
processedTitle(title) ==
  LET t0 == IF Falsy(title) \/ Len(Trim(title.s)) = 0
              THEN placeholderTitle ELSE title.s
      t1 == Trim(t0)
  IN IF Len(t1) < titleMinLength THEN Str(placeholderTitle)
     ELSE IF Len(t1) > titleMaxLength
       THEN Str(Substring0(t1, titleMaxLength) \o Ellipsis)
     ELSE Str(t1)

\* lines 208-210 and 233-255
validatedDueDate(due_date, today) ==
  LET d0 == IF Falsy(due_date) THEN today ELSE due_date.s
  IN IF ~dateRegex(d0) THEN Str(today)
     ELSE IF parsedDate(d0).nan THEN Str(today)
     ELSE IF parsedDate(d0).day < parsedDate(today).day THEN Str(today)
     ELSE Str(d0)

\* lines 257-265
validatedDueTime(due_time) ==
  IF Falsy(due_time) THEN Str(defaultTime)
  ELSE IF ~timeRegex(due_time.s) THEN Str(defaultTime)
  ELSE due_time

\* lines 212-214
defaultedPriority(priority) ==
  IF Falsy(priority) THEN Str(medium) ELSE priority

\* lines 216-218
defaultedCategory(category) ==
  IF Falsy(category) \/ ~IsArray(category) THEN Arr(<<Str(personal)>>) ELSE category

\* the description cut from 1000 characters on, not from 1001
processedDescriptionCutEarly(description) ==
  IF Falsy(description) THEN description
  ELSE LET d1 == Trim(description.s)
       IN IF Len(d1) >= descriptionMaxLength
            THEN Str(Substring0(d1, descriptionMaxLength) \o Ellipsis)
            ELSE Str(d1)

\* lines 267-273
processedDescription(description) ==
  IF Falsy(description) THEN description
  ELSE LET d1 == Trim(description.s)
       IN IF Len(d1) > descriptionMaxLength
            THEN Str(Substring0(d1, descriptionMaxLength) \o Ellipsis)
            ELSE Str(d1)

\* lines 200-273: the validation and repair of result.object
repair(todoData, today) ==
  [title |-> processedTitle(todoData.title),
   description |-> processedDescription(todoData.description),
   due_date |-> validatedDueDate(todoData.due_date, today),
   due_time |-> validatedDueTime(todoData.due_time),
   priority |-> defaultedPriority(todoData.priority),
   category |-> defaultedCategory(todoData.category)]

(***************************************************************************)
(* Failures and their classification by the two catch blocks               *)
(***************************************************************************)
\* the substrings the catch blocks look for in error.message
Keywords ==
  {"API key", "authentication", "quota", "limit", "rate limit",
   "network", "fetch", "timeout", "bad request"}

\* error.message?.includes(k): a message is modelled by the set of the
\* looked-for substrings it contains
includes(error, k) == k \in error.message

\* the catch block with the network test ahead of the rate test
generateCatchNetworkFirst(error) ==
  IF includes(error, "API key") \/ includes(error, "authentication")
    THEN [status |-> 500, success |-> FALSE, error |-> "ServiceAuthError"]
  ELSE IF \/ includes(error, "network")
          \/ includes(error, "fetch")
          \/ includes(error, "timeout")
    THEN [status |-> 500, success |-> FALSE, error |-> "ServiceUnavailable"]
  ELSE IF \/ includes(error, "quota")
          \/ includes(error, "limit")
          \/ includes(error, "rate limit")
          \/ error.status = 429
    THEN [status |-> 429, success |-> FALSE, error |-> "ServiceRateLimited"]
  ELSE IF includes(error, "bad request") \/ error.status = 400
    THEN [status |-> 400, success |-> FALSE, error |-> "BadRequestFormat"]
  ELSE [status |-> 500, success |-> FALSE, error |-> "ServiceError"]

\* generate-todo, lines 279-325: the reply of the catch block
generateCatch(error) ==
  IF includes(error, "API key") \/ includes(error, "authentication")
    THEN [status |-> 500, success |-> FALSE, error |-> "ServiceAuthError"]
  ELSE IF \/ includes(error, "quota")
          \/ includes(error, "limit")
          \/ includes(error, "rate limit")
          \/ error.status = 429
    THEN [status |-> 429, success |-> FALSE, error |-> "ServiceRateLimited"]
  ELSE IF \/ includes(error, "network")
          \/ includes(error, "fetch")
          \/ includes(error, "timeout")
    THEN [status |-> 500, success |-> FALSE, error |-> "ServiceUnavailable"]
  ELSE IF includes(error, "bad request") \/ error.status = 400
    THEN [status |-> 400, success |-> FALSE, error |-> "BadRequestFormat"]
  ELSE [status |-> 500, success |-> FALSE, error |-> "ServiceError"]

\* analyze-todos, lines 683-714: the reply of the catch block
analyzeCatch(error) ==
  IF includes(error, "API key") \/ includes(error, "authentication")
    THEN [status |-> 500, success |-> FALSE, error |-> "ServiceAuthError"]
  ELSE IF \/ includes(error, "quota")
          \/ includes(error, "limit")
          \/ includes(error, "rate limit")
          \/ error.status = 429
    THEN [status |-> 429, success |-> FALSE, error |-> "ServiceRateLimited"]
  ELSE IF \/ includes(error, "network")
          \/ includes(error, "fetch")
          \/ includes(error, "timeout")
    THEN [status |-> 500, success |-> FALSE, error |-> "ServiceUnavailable"]
  ELSE [status |-> 500, success |-> FALSE, error |-> "ServiceError"]

\* generateObject rejects a value that does not match the schema it was given
schemaMismatch == [message |-> {}, status |-> 0]

(***************************************************************************)
(* The values the environment supplies: request bodies, request instants,  *)
(* replies and failures of the completion service                          *)
(***************************************************************************)
Pads == {0, MaxPad}
Padded(body, p) == Rep(" ", p) \o body \o Rep("\n", p)
DateStr(y, m, d) == toISODate([y |-> y, m |-> m, d |-> d])

\* naturalLanguageInput of a generate-todo request body
NaturalLanguageInputs ==
  {Undefined, Null, Num(0), Num(5), Obj, Arr(<<>>)}
  \cup {Str(Padded(Rep("a", n), p)) :
          n \in {0, minInputLength - 1, maxInputLength + 1}, p \in Pads}
  \cup {Str(Padded(Rep("a", n), MaxPad)) : n \in {minInputLength, maxInputLength}}
  \cup {Str(Padded(<<"a">> \o Rep(" ", MaxPad + 1) \o <<"b">>, MaxPad))}

\* the UTC day of `new Date()` when a request is handled
Nows == {[y |-> 2026, m |-> 2, d |-> 27, zone |-> 0], [y |-> 2026, m |-> 3, d |-> 5, zone |-> 0]}

Titles ==
  {Undefined, Num(5), Str(<<>>), Str(Rep(" ", MaxPad))}
  \cup {Str(Padded(Rep("a", n), p)) :
          n \in {titleMinLength, titleMaxLength, titleMaxLength + 1}, p \in Pads}
  \cup {Str(Rep("a", titleMaxLength - 1) \o <<" ", "b">>)}
TitlesFew == {Str(<<"a", "b">>), Str(<<" ", "a">>)}

DueDates ==
  {Undefined, Str(<<>>), Str(<<"t", "o", "m">>),
   Str(<<"2", "0", "2", "6", "/", "0", "3", "/", "1", "0">>),
   Str(<<"2", "0", "2", "6", "-", "3", "-", "1", "0">>),
   Str(DateStr(2026, 3, 10) \o <<"T">>)}
  \cup {Str(DateStr(y, 2, d)) : y \in {2024, 2026}, d \in {26, 27, 28, 29, 30, 31}}
  \cup {Str(DateStr(2026, 3, d)) : d \in {0, 1, 4, 5, 6, 31, 32}}
  \cup {Str(DateStr(2026, m, 1)) : m \in {0, 4, 12, 13}}
  \cup {Str(DateStr(0, 1, 1)), Str(DateStr(9999, 12, 31))}
DueDatesFew == {Str(DateStr(2026, 3, 10)), Str(<<"s", "o", "o", "n">>)}

DueTimes ==
  {Undefined, Num(9), Str(<<>>),
   Str(<<"0", "9", ":", "0", "0">>), Str(<<"9", ":", "0", "0">>),
   Str(<<"0", "0", ":", "0", "0">>), Str(<<"2", "3", ":", "5", "9">>),
   Str(<<"2", "4", ":", "0", "0">>), Str(<<"1", "2", ":", "6", "0">>),
   Str(<<"7", ":", "5">>), Str(<<"0", "9", "3", "0">>),
   Str(<<"1", "2", ":", "3", "0", ":", "0", "0">>),
   Str(<<" ", "1", "2", ":", "3", "0">>), Str(<<"n", "o", "o", "n">>)}
DueTimesFew == {Str(<<"1", "4", ":", "0", "0">>), Str(<<"2", "5", ":", "0", "0">>)}

Priorities ==
  PriorityEnum
  \cup {Undefined, Null, Str(<<>>), Str(<<"u", "r", "g", "e", "n", "t">>),
        Str(<<"H", "I", "G", "H">>)}
PrioritiesFew == {Str(low)}

\* the sequences over S of length at most n
SeqsUpTo(S, n) == UNION {[1..k -> S] : k \in 0..n}

Categories ==
  {Undefined, Null, Obj, Str(work)}
  \cup {Arr(a) : a \in SeqsUpTo({Str(work), Str(personal), Num(3)}, MaxList)}
CategoriesFew == {Arr(<<Str(work)>>)}

Descriptions ==
  {Undefined, Null, Num(5), Str(<<>>), Str(Rep(" ", MaxPad))}
  \cup {Str(Padded(Rep("d", n), p)) :
          n \in {1, descriptionMaxLength, descriptionMaxLength + 1}, p \in Pads}
DescriptionsFew == {Undefined, Str(<<" ", "d">>)}

TodoObject(ti, de, dd, dt, pr, ca) ==
  [title |-> ti, description |-> de, due_date |-> dd, due_time |-> dt,
   priority |-> pr, category |-> ca]

\* what the completion service may send back for a generate-todo prompt: one
\* field ranges over its whole set, the others over a few values
TodoReplies ==
  {TodoObject(ti, de, dd, dt, pr, ca) :
     ti \in Titles, de \in DescriptionsFew, dd \in DueDatesFew,
     dt \in DueTimesFew, pr \in PrioritiesFew, ca \in CategoriesFew}
  \cup {TodoObject(ti, de, dd, dt, pr, ca) :
     ti \in TitlesFew, de \in Descriptions, dd \in DueDatesFew,
     dt \in DueTimesFew, pr \in PrioritiesFew, ca \in CategoriesFew}
  \cup {TodoObject(ti, de, dd, dt, pr, ca) :
     ti \in TitlesFew, de \in DescriptionsFew, dd \in DueDates,
     dt \in DueTimesFew, pr \in PrioritiesFew, ca \in CategoriesFew}
  \cup {TodoObject(ti, de, dd, dt, pr, ca) :
     ti \in TitlesFew, de \in DescriptionsFew, dd \in DueDatesFew,
     dt \in DueTimes, pr \in PrioritiesFew, ca \in CategoriesFew}
  \cup {TodoObject(ti, de, dd, dt, pr, ca) :
     ti \in TitlesFew, de \in DescriptionsFew, dd \in DueDatesFew,
     dt \in DueTimesFew, pr \in Priorities, ca \in CategoriesFew}
  \cup {TodoObject(ti, de, dd, dt, pr, ca) :
     ti \in TitlesFew, de \in DescriptionsFew, dd \in DueDatesFew,
     dt \in DueTimesFew, pr \in PrioritiesFew, ca \in Categories}

\* the errors generateObject (or request.json()) may throw: the looked-for
\* substrings its message contains (one containing "rate limit" contains
\* "limit") and its status property, 0 when it has none
Errors ==
  {[message |-> ks, status |-> st] :
     ks \in {k \in SUBSET Keywords :
               /\ Cardinality(k) <= MaxKeywords
               /\ "rate limit" \in k => "limit" \in k},
     st \in {0, 400, 429, 503}}

todayPeriod == <<"t", "o", "d", "a", "y">>
weekPeriod == <<"w", "e", "e", "k">>
tomorrowPeriod == <<"t", "o", "m", "o", "r", "r", "o", "w">>

\* due_date of a task: null, or a string, modelled by the Date it parses to
\* in the local time of the handler (day number and hour of the day); the
\* time value is NaN for a string that is no date
DueAt(day, hour) == [t |-> "timestamp", nan |-> FALSE, day |-> day, hour |-> hour]
DueInvalid == [t |-> "timestamp", nan |-> TRUE, day |-> 0, hour |-> 0]

\* a task of the list sent to analyze-todos
Todo(completed, priority, due_date) ==
  [t |-> "object", completed |-> completed, priority |-> priority,
   due_date |-> due_date]
Todos == {Todo(c, Str(medium), Null) : c \in BOOLEAN}

\* the local day and hour of `new Date()` when analyze-todos computes the
\* deadline statistics
Instants == {[y |-> 2026, m |-> 2, d |-> 27, h |-> 9],
             [y |-> 2026, m |-> 3, d |-> 5, h |-> 15]}

\* the task lists of the statistics: tasks of every priority, one of a
\* priority outside the three, and tasks due in each slot, before, at and
\* after the instant of the analysis
urgent == <<"u", "r", "g", "e", "n", "t">>
StatInstant == [y |-> 2026, m |-> 2, d |-> 27, h |-> 9]
StatDay == MakeDay(StatInstant.y, StatInstant.m, StatInstant.d)
StatTodos ==
  {Todo(TRUE, Str(medium), Null), Todo(FALSE, Str(low), Null),
   Todo(FALSE, Str(urgent), Null),
   Todo(TRUE, Str(high), DueAt(StatDay, StatInstant.h - 1)),
   Todo(FALSE, Str(high), DueAt(StatDay, StatInstant.h - 1)),
   Todo(FALSE, Str(high), DueAt(StatDay, StatInstant.h)),
   Todo(TRUE, Str(high), DueAt(StatDay, 13)),
   Todo(TRUE, Str(high), DueAt(StatDay - 1, 20)),
   Todo(FALSE, Str(high), DueInvalid)}
StatLists == {Arr(a) : a \in SeqsUpTo(StatTodos, MaxTasks)}
StatReplies ==
  {[summary |-> Str(<<"s">>), urgentTasks |-> Arr(<<>>),
    insights |-> Arr(Rep(Str(<<"x">>), 3)), recommendations |-> Arr(Rep(Str(<<"x">>), 3))]}
StatErrors == {[message |-> {"timeout"}, status |-> 0]}

\* todos and period of an analyze-todos request body
TodoLists ==
  {Undefined, Null, Obj, Num(0), Str(<<"x">>)}
  \cup {Arr(a) : a \in SeqsUpTo(Todos, MaxList)}
Periods ==
  {Undefined, Null, Num(1), Str(<<>>), Str(todayPeriod), Str(weekPeriod), Str(tomorrowPeriod)}

Lists == {Arr(Rep(Str(<<"x">>), n)) : n \in 0..MaxList}

\* what the completion service may send back for an analyze-todos prompt
AnalysisReplies ==
  {[summary |-> su, urgentTasks |-> ur, insights |-> ins, recommendations |-> re] :
     su \in {Undefined, Str(<<"s">>)}, ur \in Lists,
     ins \in Lists \cup {Undefined}, re \in Lists}

IsStringArray(v) ==
  IsArray(v) /\ \A i \in 1..Len(v.a) : IsString(v.a[i])

\* a schema that leaves insights unchecked
analysisSchemaAcceptsLoose(raw) ==
  /\ IsString(raw.summary)
  /\ IsStringArray(raw.urgentTasks)
  /\ IsStringArray(raw.recommendations)

\* analysisSchema accepts the value
analysisSchemaAccepts(raw) ==
  /\ IsString(raw.summary)
  /\ IsStringArray(raw.urgentTasks)
  /\ IsStringArray(raw.insights)
  /\ IsStringArray(raw.recommendations)

(***************************************************************************)
(* The handlers.  A request is handled in two steps: from its arrival to   *)
(* the reply or to the call of generateObject, and from the settling of    *)
(* that call to the reply.                                                 *)
(***************************************************************************)
VARIABLES
  apiKey,    \* whether GOOGLE_GENERATIVE_AI_API_KEY is set
  pc,        \* "idle", "awaiting" (generateObject pending) or "replied"
  route,     \* the handler of the request: "generate-todo" or "analyze-todos"
  body,      \* the fields read from the request body
  now,       \* the day of the handler's new Date()
  calls,     \* generateObject calls made for the request
  prompt,    \* what the last call was given
  outcome,   \* how the call settled
  replies,   \* Response objects returned for the request
  response   \* the last of them

\* the invocations of the two handlers that are in progress at once
VARIABLES
  requests   \* for each of them, the locals of the invocation

\* the storage layer (the database behind the Supabase client)
VARIABLES
  authUsers,  \* auth.users: the registered identities
  users,      \* public.users: the profile row of each identity, or NoRow
  todoRows,   \* public.todos: the row of each id, or NoRow
  statement,  \* the last statement sent to the storage layer
  result      \* what the storage layer answered

\* the page (src/app/page.tsx) in one browser
VARIABLES
  session,       \* the identity of the browser session, or NoUid
  pagePc,        \* the await at which the running handler stands, or "idle"
  locals,        \* the arguments and the locals of the running handler
  pageTodos,     \* the state `todos`
  pageError,     \* the state `error`
  storageCalls   \* the calls the running handler has issued, in order

handlerVars ==
  <<apiKey, pc, route, body, now, calls, prompt, outcome, replies, response, requests>>
\* the main list of the page (page.tsx lines 53-57 and 80-147)
VARIABLES
  viewTodos,       \* todos: the tasks the page holds
  searchQuery,     \* the text of the search box
  filterStatus,    \* "all", "active", "completed" or "overdue"
  filterPriority,  \* "all" or a priority
  sortOption,      \* "priority", "due_date", "created_date" or "title"
  viewNow,         \* the `now` of the last computation of the list
  filtered         \* filteredAndSortedTodos: the memoised list shown

NoInstant == [y |-> 0, m |-> 0, d |-> 0, h |-> 0]

\* the analysis panel (page.tsx lines 67-77) and the AI input of the task
\* form (TodoForm, part_003 lines 55-57)
VARIABLES
  analysisPeriod,  \* the tab shown: "today" or "week"
  isAnalyzing,
  analysisResult,  \* null or the narrative of the last analysis
  analysisError,   \* null or a message
  todayStats,      \* null or {total, completed, rate, todos}
  weekStats,
  analyzeRuns,     \* the calls of handleAnalyzeTodos awaiting fetch
  aiInput,         \* the text of the AI input
  isGenerating,
  aiError,         \* null or a message
  form,            \* the fields of the form
  generateRuns     \* the calls of handleAiGenerate awaiting fetch

\* null, for a state that is null or a text
NoText == "null"

\* AuthGuard (part_002 lines 18-92) on the page of a path
VARIABLES
  authSession,  \* whether the browser holds the session of a user
  pathname,     \* the path of the page shown
  isChecking,
  found,        \* checkAuth: "pending", "user", "none" or "threw"
  pushedTo,     \* the path of the last router.push not yet shown
  timers,       \* setTimeout callbacks not yet run
  unmounted     \* the paths of the guards unmounted while their checkAuth
                \* awaited getUser

storeVars == <<authUsers, users, todoRows, statement, result>>
pageVars == <<session, pagePc, locals, pageTodos, pageError, storageCalls>>

\* the main list of the page: what it shows of the tasks it holds
listVars == <<viewTodos, searchQuery, filterStatus, filterPriority, sortOption, viewNow, filtered>>
\* the analysis panel of the page and the AI input of the task form
panelVars ==
  <<analysisPeriod, isAnalyzing, analysisResult, analysisError, todayStats, weekStats,
    analyzeRuns, aiInput, isGenerating, aiError, form, generateRuns>>
\* AuthGuard and the router it drives
guardVars == <<authSession, pathname, isChecking, found, pushedTo, timers, unmounted>>
uiVars == <<listVars, panelVars, guardVars>>

vars == <<handlerVars, storeVars, pageVars, uiVars>>

None == [kind |-> "none"]
NoDay == [y |-> 0, m |-> 0, d |-> 0]

\* identities: the registered users, and auth.uid() of a request without a
\* session, which is SQL NULL
Uids == {"u1", "u2"}
NoUid == "null"
NoRow == [exists |-> FALSE]

\* the invocations that may be in progress at once
Slots == 1..MaxRequests

\* the locals of an invocation that has not started: the fields of the request
\* body, the handler's `now`, the prompt given to generateObject, how that
\* call settled and the Response returned; overlaps records that another
\* invocation was awaiting generateObject when this one started
IdleRequest ==
  [pc |-> "idle", route |-> "none", body |-> None, now |-> NoDay,
   prompt |-> None, outcome |-> None, response |-> None, overlaps |-> FALSE]

\* no request is being handled
HandlersIdle ==
  /\ requests = [k \in Slots |-> IdleRequest]
  /\ pc = "idle"
  /\ route = "none"
  /\ body = None
  /\ now = NoDay
  /\ calls = 0
  /\ prompt = None
  /\ outcome = None
  /\ replies = 0
  /\ response = None

\* the database after the schema script has run
StoreEmpty ==
  /\ authUsers = {}
  /\ users = [u \in Uids |-> NoRow]
  /\ todoRows = [i \in 1..MaxRows |-> NoRow]
  /\ statement = None
  /\ result = None

\* a message, kept by its text and by the substrings the page looks for
\* that it contains
Msg(text, has) == [text |-> text, has |-> has]
NoMessage == Msg("", {})

\* the page before it is mounted
PageIdle ==
  /\ session = NoUid
  /\ pagePc = "idle"
  /\ locals = None
  /\ pageTodos = {}
  /\ pageError = NoMessage
  /\ storageCalls = <<>>

\* page.tsx lines 53-57: the initial state of the list
ListIdle ==
  /\ viewTodos = <<>>
  /\ searchQuery = <<>>
  /\ filterStatus = "all"
  /\ filterPriority = "all"
  /\ sortOption = "created_date"
  /\ viewNow = NoInstant
  /\ filtered = <<>>

\* page.tsx lines 67-77 and part_003 lines 55-73: the initial state of the
\* panel and of the form of a new task
PanelIdle ==
  /\ analysisPeriod = "today"
  /\ isAnalyzing = FALSE
  /\ analysisResult = Null
  /\ analysisError = NoText
  /\ todayStats = Null
  /\ weekStats = Null
  /\ analyzeRuns = <<>>
  /\ aiInput = <<>>
  /\ isGenerating = FALSE
  /\ aiError = NoText
  /\ form = [filled |-> FALSE]
  /\ generateRuns = <<>>

\* the browser has opened "/" without a session; the guard of the page is
\* mounted and its checkAuth awaits getUser
GuardMounted ==
  /\ authSession = FALSE
  /\ pathname = "/"
  /\ isChecking = TRUE
  /\ found = "pending"
  /\ pushedTo = NoText
  /\ timers = 0
  /\ unmounted = {}

UiIdle == ListIdle /\ PanelIdle /\ GuardMounted

Init ==
  /\ apiKey \in BOOLEAN
  /\ HandlersIdle
  /\ StoreEmpty
  /\ PageIdle
  /\ UiIdle

\* return Response.json(r, {status}).  Of the reply the model keeps the HTTP
\* status, the success flag, the message (as the name of its category) and
\* the data; the development-only "details" text is left out.
Reply(r) ==
  /\ response' = r
  /\ replies' = replies + 1
  /\ pc' = "replied"
  /\ UNCHANGED <<storeVars, pageVars, uiVars, requests>>

\* generate-todo lines 100-131: of the prompt, the input and the dates
\* written into it
generatePrompt(input, date) ==
  [input |-> preprocessInput(input),
   today |-> toISODate(date),
   tomorrowDate |-> plusDays(date, 1),
   dayAfterTomorrowDate |-> plusDays(date, 2),
   thisFridayDate |-> plusDays(date, daysUntilFriday(date)),
   nextMondayDate |-> plusDays(date, daysUntilNextMonday(date))]

\* await generateObject({...})
CallGenerateObject(p) ==
  /\ prompt' = p
  /\ calls' = calls + 1
  /\ pc' = "awaiting"
  /\ UNCHANGED <<storeVars, pageVars, uiVars, requests>>

\* generate-todo POST, lines 74-131
GeneratePost(naturalLanguageInput, date) ==
  /\ pc = "idle"
  /\ route' = "generate-todo"
  /\ body' = [naturalLanguageInput |-> naturalLanguageInput]
  /\ outcome' = None
  /\ UNCHANGED apiKey
  /\ LET validation == validateInput(naturalLanguageInput) IN
     IF ~validation.valid
       THEN /\ Reply([status |-> validation.status, success |-> FALSE,
                      error |-> validation.error])
            /\ UNCHANGED <<now, calls, prompt>>
     ELSE IF ~apiKey
       \* this reply has no success field
       THEN /\ Reply([status |-> 500, success |-> FALSE, error |-> "ConfigError"])
            /\ UNCHANGED <<now, calls, prompt>>
     ELSE /\ now' = date
          /\ CallGenerateObject(generatePrompt(naturalLanguageInput.s, date))
          /\ UNCHANGED <<replies, response>>

\* generate-todo POST: request.json() throws, lines 76 and 279-325
GenerateJsonThrows(error) ==
  /\ pc = "idle"
  /\ route' = "generate-todo"
  /\ outcome' = [kind |-> "json", error |-> error]
  /\ Reply(generateCatch(error))
  /\ UNCHANGED <<apiKey, body, now, calls, prompt>>

\* generate-todo POST, lines 131-278: generateObject yields a value
GenerateObjectReturns(raw) ==
  /\ pc = "awaiting"
  /\ route = "generate-todo"
  /\ outcome' = [kind |-> "object", raw |-> raw]
  /\ IF todoSchemaAccepts(raw)
       THEN Reply([status |-> 200, success |-> TRUE,
                   data |-> repair(todoSchemaParse(raw), toISODate(now))])
       ELSE Reply(generateCatch(schemaMismatch))
  /\ UNCHANGED <<apiKey, route, body, now, calls, prompt>>

\* a catch block that calls generateObject again instead of replying
GenerateObjectThrowsRetry(error) ==
  /\ pc = "awaiting"
  /\ route = "generate-todo"
  /\ outcome' = [kind |-> "error", error |-> error]
  /\ calls' = calls + 1
  /\ UNCHANGED <<apiKey, pc, route, body, now, prompt, replies, response>>
  /\ UNCHANGED <<storeVars, pageVars, uiVars, requests>>

\* generate-todo POST, lines 131 and 279-325: generateObject throws
GenerateObjectThrows(error) ==
  /\ pc = "awaiting"
  /\ route = "generate-todo"
  /\ outcome' = [kind |-> "error", error |-> error]
  /\ Reply(generateCatch(error))
  /\ UNCHANGED <<apiKey, route, body, now, calls, prompt>>

(***************************************************************************)
(* analyze-todos: the statistics of the task list.  A rate is kept as the  *)
(* exact fraction num/den of the quotient the code computes in floating    *)
(* point.                                                                  *)
(***************************************************************************)
\* todos.length
totalTasks(todos) == Len(todos.a)

\* todos.filter((todo) => todo.completed).length
completedTasks(todos) ==
  Cardinality({i \in 1..Len(todos.a) : todos.a[i].completed})

\* totalTasks - completedTasks
incompleteTasks(todos) == totalTasks(todos) - completedTasks(todos)

\* total > 0 ? (completed / total) * 100 : 0
percentage(completed, total) ==
  IF total > 0 THEN [num |-> completed * 100, den |-> total]
               ELSE [num |-> 0, den |-> 1]

completionRate(todos) == percentage(completedTasks(todos), totalTasks(todos))

\* priorityStats[todo.priority] is undefined for a priority that is none of
\* the three keys, and reading its total throws a TypeError
priorityStatsThrows(todos) ==
  \E i \in 1..Len(todos.a) : todos.a[i].priority \notin PriorityEnum

\* the TypeError: its message holds none of the substrings looked for
typeError == [message |-> {}, status |-> 0]

\* counters whose incomplete count forgets the priority of the task
priorityStatsAllOpen(todos) ==
  [p \in PriorityEnum |->
     LET HasPriority(todo) == todo.priority = p
         Done(todo) == todo.priority = p /\ todo.completed
         Open(todo) == ~todo.completed
     IN [total |-> Len(SelectSeq(todos.a, HasPriority)),
         completed |-> Len(SelectSeq(todos.a, Done)),
         incomplete |-> Len(SelectSeq(todos.a, Open))]]

\* the three counters after the forEach over the list
priorityStats(todos) ==
  [p \in PriorityEnum |->
     LET HasPriority(todo) == todo.priority = p
         Done(todo) == todo.priority = p /\ todo.completed
         Open(todo) == todo.priority = p /\ ~todo.completed
     IN [total |-> Len(SelectSeq(todos.a, HasPriority)),
         completed |-> Len(SelectSeq(todos.a, Done)),
         incomplete |-> Len(SelectSeq(todos.a, Open))]]

\* highCompletionRate, mediumCompletionRate, lowCompletionRate
priorityCompletionRate(todos) ==
  [p \in PriorityEnum |->
     percentage(priorityStats(todos)[p].completed, priorityStats(todos)[p].total)]

\* dueDate <= now
NotAfter(dueDate, instant) ==
  /\ ~dueDate.nan
  /\ dueDate.day * 24 + dueDate.hour
       <= MakeDay(instant.y, instant.m, instant.d) * 24 + instant.h

\* dueDate < now, false when the time value of dueDate is NaN
Before(dueDate, instant) ==
  /\ ~dueDate.nan
  /\ dueDate.day * 24 + dueDate.hour
       < MakeDay(instant.y, instant.m, instant.d) * 24 + instant.h

\* overdueTasks.length
overdueTasks(todos, instant) ==
  LET Overdue(todo) ==
        /\ ~(Falsy(todo.due_date) \/ todo.completed)
        /\ Before(todo.due_date, instant)
  IN Len(SelectSeq(todos.a, Overdue))

\* the keys of timeSlotCount in the order of Object.entries
timeSlots == <<"morning", "afternoon", "evening">>

\* the slots with the afternoon lasting until 21 h
timeSlotOfLongAfternoon(dueDate) ==
  IF ~dueDate.nan /\ dueDate.hour < 12 THEN "morning"
  ELSE IF ~dueDate.nan /\ dueDate.hour < 21 THEN "afternoon"
  ELSE "evening"

\* the slot of new Date(due_date).getHours(); the hour of an invalid Date is
\* NaN, which is neither < 12 nor < 18
timeSlotOf(dueDate) ==
  IF ~dueDate.nan /\ dueDate.hour < 12 THEN "morning"
  ELSE IF ~dueDate.nan /\ dueDate.hour < 18 THEN "afternoon"
  ELSE "evening"

timeSlotCount(todos) ==
  [slot \in {"morning", "afternoon", "evening"} |->
     LET InSlot(todo) ==
           ~Falsy(todo.due_date) /\ timeSlotOf(todo.due_date) = slot
         DoneInSlot(todo) == InSlot(todo) /\ todo.completed
     IN [total |-> Len(SelectSeq(todos.a, InSlot)),
         completed |-> Len(SelectSeq(todos.a, DoneInSlot))]]

\* b.rate - a.rate > 0
Greater(b, a) == b.num * a.den > a.num * b.den

\* a sort that puts the later of two entries of one rate first
sortByRateLatestFirst(entries) ==
  LET n == Len(entries)
      position(i) ==
        1 + Cardinality({j \in 1..n : Greater(entries[j].rate, entries[i].rate)})
          + Cardinality({j \in (i + 1)..n :
                           ~Greater(entries[j].rate, entries[i].rate)
                           /\ ~Greater(entries[i].rate, entries[j].rate)})
  IN [k \in 1..n |-> entries[CHOOSE i \in 1..n : position(i) = k]]

\* entries.sort((a, b) => b.rate - a.rate): the sort is stable, an entry
\* comes after the entries of greater rate and after the earlier entries
\* of its own rate
sortByRate(entries) ==
  LET n == Len(entries)
      position(i) ==
        1 + Cardinality({j \in 1..n : Greater(entries[j].rate, entries[i].rate)})
          + Cardinality({j \in 1..(i - 1) :
                           ~Greater(entries[j].rate, entries[i].rate)
                           /\ ~Greater(entries[i].rate, entries[j].rate)})
  IN [k \in 1..n |-> entries[CHOOSE i \in 1..n : position(i) = k]]

\* Object.entries(timeSlotCount).map(...).sort(...)[0]
mostProductiveTimeSlot(todos) ==
  sortByRate(
    [k \in 1..Len(timeSlots) |->
       [slot |-> timeSlots[k],
        rate |-> percentage(timeSlotCount(todos)[timeSlots[k]].completed,
                            timeSlotCount(todos)[timeSlots[k]].total)]])[1]

\* highPriorityTasks.filter((t) => !t.completed).length / (incompleteTasks || 1)
postponedHighPriority(todos) ==
  LET OpenHigh(todo) == todo.priority = Str(high) /\ ~todo.completed
  IN [num |-> Len(SelectSeq(todos.a, OpenHigh)),
      den |-> IF incompleteTasks(todos) = 0 THEN 1 ELSE incompleteTasks(todos)]

\* the statistics written into the prompt
statistics(todos, instant) ==
  [totalTasks |-> totalTasks(todos),
   completedTasks |-> completedTasks(todos),
   incompleteTasks |-> incompleteTasks(todos),
   completionRate |-> completionRate(todos),
   priorityStats |-> priorityStats(todos),
   priorityCompletionRate |-> priorityCompletionRate(todos),
   overdueTasks |-> overdueTasks(todos, instant),
   timeSlotCount |-> timeSlotCount(todos),
   mostProductiveTimeSlot |-> mostProductiveTimeSlot(todos),
   postponedHighPriority |-> postponedHighPriority(todos)]

\* line 411: !todos || !Array.isArray(todos)
todosMissing(todos) == Falsy(todos) \/ ~IsArray(todos)

\* the period test without the comparison with the two selectors
periodMissingOnlyFalsy(period) == Falsy(period)

\* line 418: !period || (period !== "today" && period !== "week")
periodMissing(period) ==
  Falsy(period) \/ (period # Str(todayPeriod) /\ period # Str(weekPeriod))

\* analyze-todos POST, lines 406-578.  The prompt is kept by its period and
\* the statistics written into it; the counts by category and by weekday and
\* the on-time rate, which enter the prompt only, are left out.
AnalyzePost(todos, period, date) ==
  /\ pc = "idle"
  /\ route' = "analyze-todos"
  /\ body' = [todos |-> todos, period |-> period]
  /\ UNCHANGED apiKey
  /\ IF todosMissing(todos)
       THEN /\ Reply([status |-> 400, success |-> FALSE, error |-> "todos_required"])
            /\ outcome' = None
            /\ UNCHANGED <<now, calls, prompt>>
     ELSE IF periodMissing(period)
       THEN /\ Reply([status |-> 400, success |-> FALSE, error |-> "period_required"])
            /\ outcome' = None
            /\ UNCHANGED <<now, calls, prompt>>
     ELSE IF ~apiKey
       THEN /\ Reply([status |-> 500, success |-> FALSE, error |-> "ConfigError"])
            /\ outcome' = None
            /\ UNCHANGED <<now, calls, prompt>>
     ELSE IF priorityStatsThrows(todos)
       THEN /\ Reply(analyzeCatch(typeError))
            /\ outcome' = [kind |-> "thrown", error |-> typeError]
            /\ UNCHANGED <<now, calls, prompt>>
     ELSE /\ now' = date
          /\ outcome' = None
          /\ CallGenerateObject(
               [period |-> period.s, statistics |-> statistics(todos, date)])
          /\ UNCHANGED <<replies, response>>

\* analyze-todos POST: request.json() throws, lines 408 and 683-714
AnalyzeJsonThrows(error) ==
  /\ pc = "idle"
  /\ route' = "analyze-todos"
  /\ outcome' = [kind |-> "json", error |-> error]
  /\ Reply(analyzeCatch(error))
  /\ UNCHANGED <<apiKey, body, now, calls, prompt>>

\* analyze-todos POST, lines 578-682: generateObject yields a value
AnalyzeObjectReturns(raw) ==
  /\ pc = "awaiting"
  /\ route = "analyze-todos"
  /\ outcome' = [kind |-> "object", raw |-> raw]
  /\ IF analysisSchemaAccepts(raw)
       THEN Reply([status |-> 200, success |-> TRUE, data |-> raw])
       ELSE Reply(analyzeCatch(schemaMismatch))
  /\ UNCHANGED <<apiKey, route, body, now, calls, prompt>>

\* analyze-todos POST, lines 578 and 683-714: generateObject throws
AnalyzeObjectThrows(error) ==
  /\ pc = "awaiting"
  /\ route = "analyze-todos"
  /\ outcome' = [kind |-> "error", error |-> error]
  /\ Reply(analyzeCatch(error))
  /\ UNCHANGED <<apiKey, route, body, now, calls, prompt>>

\* the handler has returned; the next request starts from a fresh invocation
RequestDone ==
  /\ pc = "replied"
  /\ pc' = "idle"
  /\ route' = "none"
  /\ body' = None
  /\ now' = NoDay
  /\ calls' = 0
  /\ prompt' = None
  /\ outcome' = None
  /\ replies' = 0
  /\ response' = None
  /\ UNCHANGED apiKey
  /\ UNCHANGED <<storeVars, pageVars, uiVars, requests>>

Next ==
  \/ \E input \in NaturalLanguageInputs, date \in Nows : GeneratePost(input, date)
  \/ \E error \in Errors : error.status = 0 /\ GenerateJsonThrows(error)
  \/ \E raw \in TodoReplies : GenerateObjectReturns(raw)
  \/ \E error \in Errors : GenerateObjectThrows(error)
  \/ \E todos \in TodoLists, period \in Periods, date \in Instants :
       AnalyzePost(todos, period, date)
  \/ \E error \in Errors : error.status = 0 /\ AnalyzeJsonThrows(error)
  \/ \E raw \in AnalysisReplies : AnalyzeObjectReturns(raw)
  \/ \E error \in Errors : AnalyzeObjectThrows(error)
  \/ RequestDone

Spec == Init /\ [][Next]_vars

\* the analyze-todos handler alone, given the task lists of the statistics
NextStats ==
  \/ \E todos \in StatLists, period \in {Str(todayPeriod), Str(weekPeriod)} :
       AnalyzePost(todos, period, StatInstant)
  \/ \E raw \in StatReplies : AnalyzeObjectReturns(raw)
  \/ \E error \in StatErrors : AnalyzeObjectThrows(error)
  \/ RequestDone

SpecStats == Init /\ [][NextStats]_vars

(***************************************************************************)
(* Properties                                                              *)
(***************************************************************************)
GenerateReplied == route = "generate-todo" /\ pc = "replied"
GenerateSuccess == GenerateReplied /\ response.status = 200
AnalyzeReplied == route = "analyze-todos" /\ pc = "replied"
RequestDay == toISODate(now)

InvalidInputTags ==
  {"input_required", "input_empty", "input_too_short", "input_too_long"}

RejectedInput(v) ==
  \/ ~IsString(v)
  \/ Len(v.s) = 0
  \/ Len(Trim(v.s)) < 2
  \/ Len(Trim(v.s)) > 500

\* C1: a generate-todo request whose naturalLanguageInput is not a string, is
\* empty, or has a trimmed length below 2 or above 500 is answered with
\* HTTP 400 (InvalidInput), and generateObject is not called for it.
C1_InvalidInputRejected ==
  (route = "generate-todo" /\ body # None
     /\ RejectedInput(body.naturalLanguageInput))
  => /\ pc = "replied"
     /\ response.status = 400
     /\ response.error \in InvalidInputTags
     /\ calls = 0

\* a padded input whose trimmed length is 501 has been rejected
C1_Witness ==
  /\ GenerateReplied
  /\ body # None
  /\ IsString(body.naturalLanguageInput)
  /\ Len(body.naturalLanguageInput.s) > Len(Trim(body.naturalLanguageInput.s))
  /\ Len(Trim(body.naturalLanguageInput.s)) = 501
  /\ response.status = 400

IsLeapYear(y) == y % 4 = 0 /\ (y % 100 # 0 \/ y % 400 = 0)
DaysInMonth(y, m) ==
  IF m = 2 THEN (IF IsLeapYear(y) THEN 29 ELSE 28)
  ELSE IF m \in {4, 6, 9, 11} THEN 30 ELSE 31

\* s is YYYY-MM-DD and names a day of the calendar
IsCalendarDate(s) ==
  /\ dateRegex(s)
  /\ MonthOf(s) \in 1..12
  /\ DayOf(s) \in 1..DaysInMonth(YearOf(s), MonthOf(s))

\* the calendar date a is strictly earlier than the calendar date b
EarlierDate(a, b) ==
  \/ YearOf(a) < YearOf(b)
  \/ YearOf(a) = YearOf(b) /\ MonthOf(a) < MonthOf(b)
  \/ YearOf(a) = YearOf(b) /\ MonthOf(a) = MonthOf(b) /\ DayOf(a) < DayOf(b)

GoodDueDate(v, ref) ==
  IsString(v) /\ IsCalendarDate(v.s) /\ ~EarlierDate(v.s, ref)

\* C2: in every successful generate-todo response the due date matches
\* YYYY-MM-DD, is a real calendar date and is not before the reference date;
\* a service value failing these checks is replaced by the reference date.
C2_DueDateReal ==
  GenerateSuccess =>
    /\ GoodDueDate(response.data.due_date, RequestDay)
    /\ ~GoodDueDate(outcome.raw.due_date, RequestDay)
         => response.data.due_date = Str(RequestDay)

\* s is HH:MM with a two-digit hour 00-23 and a minute 00-59
StrictTime(s) ==
  /\ Len(s) = 5
  /\ IsDigit(s[1]) /\ IsDigit(s[2]) /\ IsDigit(s[4]) /\ IsDigit(s[5])
  /\ s[3] = ":"
  /\ Num2(s, 1) <= 23
  /\ Num2(s, 4) <= 59

GoodDueTime(v) == IsString(v) /\ StrictTime(v.s)

\* C3: in every successful generate-todo response the due time matches the
\* two-digit-hour pattern HH:MM; a malformed or absent service value yields
\* exactly "09:00".
C3_DueTimeStrict ==
  GenerateSuccess =>
    /\ GoodDueTime(response.data.due_time)
    /\ ~GoodDueTime(outcome.raw.due_time)
         => response.data.due_time = Str(defaultTime)

WithPriority(raw, v) == [raw EXCEPT !.priority = v]
WithCategory(raw, v) == [raw EXCEPT !.category = v]

\* C5: whatever priority the service returns (also none, or an unrecognized
\* string), the response is successful with a priority of high, medium or
\* low, and a missing or unrecognized value is replaced by medium.
C5_PriorityDefaulted ==
  (/\ GenerateReplied
   /\ outcome.kind = "object"
   /\ todoSchemaAccepts(WithPriority(outcome.raw, Str(medium))))
  => /\ response.status = 200
     /\ response.data.priority \in PriorityEnum
     /\ outcome.raw.priority \notin PriorityEnum
          => response.data.priority = Str(medium)

\* C6: the category of a successful response is a list of strings; a service
\* value that is missing, not a list, or a list with a non-string entry is
\* replaced by the one-label list {personal}.
C6_CategoryDefaulted ==
  (/\ GenerateReplied
   /\ outcome.kind = "object"
   /\ todoSchemaAccepts(WithCategory(outcome.raw, Arr(<<>>))))
  => /\ response.status = 200
     /\ IsStringArray(response.data.category)
     /\ ~IsStringArray(outcome.raw.category)
          => response.data.category = Arr(<<Str(personal)>>)

ValidTitle(v) == IsString(v) /\ Len(v.s) \in 1..200 /\ Trim(v.s) = v.s

\* the draft the claim calls already valid
ValidDraft(d, ref) ==
  /\ ValidTitle(d.title)
  /\ GoodDueDate(d.due_date, ref)
  /\ GoodDueTime(d.due_time)
  /\ d.priority \in PriorityEnum
  /\ IsStringArray(d.category)

ValidDescription(v) ==
  v = Undefined \/ (IsString(v) /\ Trim(v.s) = v.s /\ Len(v.s) <= 1000)

\* C7 as stated: the repair pass returns an already valid draft (title of
\* 1-200 characters without surrounding white space, due date YYYY-MM-DD not
\* before the reference date, due time HH:MM, priority in the enum, category
\* a list of strings) unchanged, and a second pass changes nothing.
C7_RepairIdempotentAsStated ==
  GenerateSuccess =>
    /\ ValidDraft(outcome.raw, RequestDay) => response.data = outcome.raw
    /\ repair(response.data, RequestDay) = response.data

\* C7 amended: the same for a draft whose description, moreover, is absent
\* or is a string of at most 1000 characters without surrounding white
\* space; a second pass changes nothing, whatever the service returned.
C7_RepairIdempotent ==
  GenerateSuccess =>
    /\ (ValidDraft(outcome.raw, RequestDay)
          /\ ValidDescription(outcome.raw.description))
         => response.data = outcome.raw
    /\ repair(response.data, RequestDay) = response.data

\* a valid draft with a description of 1000 characters has been repaired
C7_Witness ==
  /\ GenerateSuccess
  /\ ValidDraft(outcome.raw, RequestDay)
  /\ IsString(outcome.raw.description)
  /\ ValidDescription(outcome.raw.description)
  /\ Len(outcome.raw.description.s) = 1000

GenerateFailure == GenerateReplied /\ outcome.kind = "error"
AuthFailure(e) == "API key" \in e.message \/ "authentication" \in e.message
RateFailure(e) ==
  \/ "quota" \in e.message \/ "limit" \in e.message
  \/ "rate limit" \in e.message \/ e.status = 429
NetworkFailure(e) ==
  "network" \in e.message \/ "fetch" \in e.message \/ "timeout" \in e.message
BadRequestFailure(e) == "bad request" \in e.message \/ e.status = 400
Reported(category, status) ==
  response.error = category /\ response.status = status

C9_OneCallOneReply ==
  /\ calls <= 1
  /\ replies <= 1
  /\ pc = "replied" <=> replies = 1
  /\ pc = "awaiting" => calls = 1
  /\ outcome.kind \in {"object", "error"} => (pc = "replied" /\ calls = 1)

\* a generate-todo call has failed and been answered
C9_Witness ==
  /\ GenerateFailure
  /\ calls = 1
  /\ replies = 1

\* C10: an analyze-todos request whose todos is absent or not a list, or
\* whose period is anything but "today" or "week", is answered with HTTP 400
\* and generateObject is not called.
C10_SummarizeInputRejected ==
  (/\ route = "analyze-todos"
   /\ body # None
   /\ \/ ~IsArray(body.todos)
      \/ body.period \notin {Str(todayPeriod), Str(weekPeriod)})
  => /\ pc = "replied"
     /\ response.status = 400
     /\ response.error \in {"todos_required", "period_required"}
     /\ calls = 0

\* a request with a task list and the period "tomorrow" has been rejected
C10_Witness ==
  /\ AnalyzeReplied
  /\ body # None
  /\ IsArray(body.todos)
  /\ Len(body.todos.a) > 0
  /\ body.period = Str(tomorrowPeriod)
  /\ response.status = 400

(***************************************************************************)
(* analyze-todos: the empty list, the statistics and the reply             *)
(***************************************************************************)
AnalyzeCalled == route = "analyze-todos" /\ prompt # None

\* C11: an analyze-todos request with an empty task list and the period
\* "today" or "week" is answered with the "nothing to analyze" condition and
\* generateObject is not called for it.
C11_EmptyListNotAnalyzed ==
  (/\ route = "analyze-todos"
   /\ apiKey
   /\ body # None
   /\ body.todos = Arr(<<>>)
   /\ body.period \in {Str(todayPeriod), Str(weekPeriod)})
  => /\ calls = 0
     /\ pc = "replied"
     /\ response.error = "nothing_to_analyze"

Fraction == [num : Int, den : Int]

\* 0 <= rate <= 100
IsPercentage(rate) == rate.den > 0 /\ 0 <= rate.num /\ rate.num <= 100 * rate.den

\* C12: in the statistics of any task list, completed + incomplete = total
\* and 0 <= completion rate <= 100 with rate 0 when the total is 0, overall
\* and in each priority bucket, and the totals of the three buckets add up
\* to the overall total.
C12_CountsAndRates ==
  AnalyzeCalled =>
    LET st == prompt.statistics IN
    /\ st.completedTasks + st.incompleteTasks = st.totalTasks
    /\ IsPercentage(st.completionRate)
    /\ st.totalTasks = 0 => st.completionRate.num = 0
    /\ st.totalTasks > 0 =>
         st.completionRate.num * st.totalTasks
           = 100 * st.completedTasks * st.completionRate.den
    /\ \A p \in PriorityEnum :
         /\ st.priorityStats[p].completed + st.priorityStats[p].incomplete
              = st.priorityStats[p].total
         /\ IsPercentage(st.priorityCompletionRate[p])
         /\ st.priorityStats[p].total = 0 => st.priorityCompletionRate[p].num = 0
    /\ st.priorityStats[Str(high)].total + st.priorityStats[Str(medium)].total
         + st.priorityStats[Str(low)].total = st.totalTasks

\* a list with a task in every bucket, some done and some not, and an empty
\* list, have been analysed
C12_Witness ==
  /\ AnalyzeCalled
  /\ \A p \in PriorityEnum : prompt.statistics.priorityStats[p].total = 1
  /\ prompt.statistics.completedTasks = 2
  /\ prompt.statistics.incompleteTasks = 1

\* the rate of a slot from its counts, 0 for a slot without tasks
SlotRate(count) ==
  IF count.total = 0 THEN <<0, 1>> ELSE <<count.completed, count.total>>
AtLeast(r1, r2) == r1[1] * r2[2] >= r2[1] * r1[2]

\* C13: the most productive time slot is the slot of the highest completion
\* rate, a slot without tasks having rate 0; among slots of equal rate the
\* earliest of morning, afternoon, evening is chosen.
C13_MostProductiveSlot ==
  AnalyzeCalled =>
    LET st == prompt.statistics
        rate(k) == SlotRate(st.timeSlotCount[timeSlots[k]])
    IN \E k \in 1..3 :
         /\ st.mostProductiveTimeSlot.slot = timeSlots[k]
         /\ st.mostProductiveTimeSlot.rate.num * rate(k)[2]
              = 100 * rate(k)[1] * st.mostProductiveTimeSlot.rate.den
         /\ \A j \in 1..3 : AtLeast(rate(k), rate(j))
         /\ \A j \in 1..(k - 1) : ~AtLeast(rate(j), rate(k))

\* afternoon and evening share the highest rate, morning has tasks and a
\* lower rate, and afternoon is chosen
C13_Witness ==
  /\ AnalyzeCalled
  /\ LET count == prompt.statistics.timeSlotCount IN
     /\ count["morning"].total > 0
     /\ count["morning"].completed = 0
     /\ count["afternoon"].completed = count["afternoon"].total
     /\ count["evening"].completed = count["evening"].total
     /\ count["afternoon"].total > 0
     /\ count["evening"].total > 0
  /\ prompt.statistics.mostProductiveTimeSlot.slot = "afternoon"

\* the tasks of the request that are not completed and whose due_date is a
\* timestamp strictly before the instant of the analysis
OpenAndPastDue ==
  {i \in 1..Len(body.todos.a) :
     LET todo == body.todos.a[i] IN
     /\ ~todo.completed
     /\ todo.due_date.t = "timestamp"
     /\ ~todo.due_date.nan
     /\ todo.due_date.day * 24 + todo.due_date.hour
          < MakeDay(now.y, now.m, now.d) * 24 + now.h}

AllCompleted == \A i \in 1..Len(body.todos.a) : body.todos.a[i].completed

AnalyzeSuccess == AnalyzeReplied /\ response.status = 200

\* C15 as stated: every successful analyze-todos reply carries a summary
\* string, at most 5 urgent task titles, 3 to 5 insights and 3 to 5
\* recommendations, whatever generateObject returned.
C15_ShapeAsStated ==
  AnalyzeSuccess =>
    /\ IsString(response.data.summary)
    /\ IsStringArray(response.data.urgentTasks)
    /\ Len(response.data.urgentTasks.a) <= 5
    /\ IsStringArray(response.data.insights)
    /\ Len(response.data.insights.a) \in 3..5
    /\ IsStringArray(response.data.recommendations)
    /\ Len(response.data.recommendations.a) \in 3..5

\* C15: every successful analyze-todos reply carries a summary string and
\* three lists of strings (urgent task titles, insights, recommendations),
\* each exactly as generateObject returned it, of whatever length.
C15_Shape ==
  AnalyzeSuccess =>
    /\ IsString(response.data.summary)
    /\ IsStringArray(response.data.urgentTasks)
    /\ IsStringArray(response.data.insights)
    /\ IsStringArray(response.data.recommendations)
    /\ outcome.kind = "object"
    /\ response.data = outcome.raw

\* a reply with fewer than 3 insights has been passed on
C15_Witness ==
  /\ AnalyzeSuccess
  /\ Len(response.data.insights.a) < 3
  /\ Len(response.data.recommendations.a) > 0

(***************************************************************************)
(* The storage layer: the two tables, their constraints and their row      *)
(* level security policies.  A statement arrives with the identity of its  *)
(* session, auth.uid(), which is NULL without a session.                   *)
(***************************************************************************)
\* a = b in SQL, as a policy takes it: a comparison with NULL is not true
SqlEq(a, b) == a # NoUid /\ b # NoUid /\ a = b

\* the policies of public.users
UsersCanViewOwnProfile(uid, row) == SqlEq(uid, row.id)
UsersCanInsertOwnProfile(uid, row) == SqlEq(uid, row.id)
UsersCanUpdateOwnProfile(uid, row) == SqlEq(uid, row.id)
UsersCanDeleteOwnProfile(uid, row) == SqlEq(uid, row.id)

\* the policies of public.todos
UsersCanViewOwnTodos(uid, row) == SqlEq(uid, row.user_id)
UsersCanInsertOwnTodos(uid, row) == SqlEq(uid, row.user_id)
\* an update policy that looks at the row before the update only
UsersCanUpdateOwnTodosUnchecked(uid, row) == TRUE
\* USING of the update policy, for the row as it is, and WITH CHECK, for the
\* row as it would become
UsersCanUpdateOwnTodosUsing(uid, row) == SqlEq(uid, row.user_id)
UsersCanUpdateOwnTodos(uid, row) == SqlEq(uid, row.user_id)
UsersCanDeleteOwnTodos(uid, row) == SqlEq(uid, row.user_id)

\* a constraint that lets any text through
priorityCheckAbsent(row) == TRUE
\* CHECK (priority IN ('high', 'medium', 'low')); NULL passes a CHECK
priorityCheck(row) == row.priority = Null \/ row.priority \in PriorityEnum

\* NOT NULL of user_id, priority and completed
todosNotNull(row) == row.user_id # NoUid /\ row.priority # Null

\* REFERENCES public.users(id)
todosUserIdFkey(row) == users[row.user_id].exists

\* the codes of the errors of the storage layer
rlsViolation == "42501"
notNullViolation == "23502"
checkViolation == "23514"
foreignKeyViolation == "23503"
uniqueViolation == "23505"

\* a profile row and a task row; creator is not a column: it records the
\* identity whose statement inserted the row
Profile(id, name) == [exists |-> TRUE, id |-> id, name |-> name]
TodoRow(id, user_id, title, created_date, priority, completed, creator) ==
  [exists |-> TRUE, id |-> id, user_id |-> user_id, title |-> title,
   created_date |-> created_date, priority |-> priority,
   completed |-> completed, creator |-> creator]

\* the columns of a row as a statement sets them, the others left alone
Patched(row, patch) ==
  [f \in DOMAIN row |-> IF f \in DOMAIN patch THEN patch[f] ELSE row[f]]

\* the answer to a statement: an error code or "", the rows sent back and
\* the number of rows written
Answer(error, rows, count) == [error |-> error, rows |-> rows, count |-> count]

Statement(op, table, uid) == [op |-> op, table |-> table, uid |-> uid]

\* handle_new_user, run for the row inserted into auth.users
handle_new_user(id) == [users EXCEPT ![id] = Profile(id, "n")]

\* a sign-up: a row in auth.users, and the profile by the trigger
SignUp(id) ==
  /\ id \notin authUsers
  /\ authUsers' = authUsers \cup {id}
  /\ users' = handle_new_user(id)
  /\ statement' = Statement("signup", "auth.users", id)
  /\ result' = Answer("", {}, 1)
  /\ UNCHANGED <<todoRows, handlerVars, uiVars>>

\* select * from public.users
SelectUsers(uid) ==
  /\ statement' = Statement("select", "users", uid)
  /\ result' = Answer("", {users[u] : u \in {v \in Uids :
                              users[v].exists /\ UsersCanViewOwnProfile(uid, users[v])}}, 0)
  /\ UNCHANGED <<authUsers, users, todoRows, handlerVars, uiVars>>

\* insert into public.users (id, name) values (...)
InsertUsers(uid, id, name) ==
  /\ statement' = Statement("insert", "users", uid)
  /\ LET row == Profile(id, name) IN
     IF ~UsersCanInsertOwnProfile(uid, row)
       THEN result' = Answer(rlsViolation, {}, 0) /\ UNCHANGED users
     ELSE IF users[id].exists
       THEN result' = Answer(uniqueViolation, {}, 0) /\ UNCHANGED users
     ELSE /\ users' = [users EXCEPT ![id] = row]
          /\ result' = Answer("", {}, 1)
  /\ UNCHANGED <<authUsers, todoRows, handlerVars, uiVars>>

\* update public.users set ... where id = target
UpdateUsers(uid, target, patch) ==
  /\ statement' = Statement("update", "users", uid)
  /\ IF ~(users[target].exists /\ UsersCanUpdateOwnProfile(uid, users[target]))
       THEN result' = Answer("", {}, 0) /\ UNCHANGED users
     ELSE IF ~UsersCanUpdateOwnProfile(uid, Patched(users[target], patch))
       THEN result' = Answer(rlsViolation, {}, 0) /\ UNCHANGED users
     ELSE /\ users' = [users EXCEPT ![target] = Patched(users[target], patch)]
          /\ result' = Answer("", {}, 1)
  /\ UNCHANGED <<authUsers, todoRows, handlerVars, uiVars>>

\* a delete of the profile that leaves the tasks of the owner in place
DeleteUsersNoCascade(uid, target) ==
  /\ statement' = Statement("delete", "users", uid)
  /\ IF users[target].exists /\ UsersCanDeleteOwnProfile(uid, users[target])
       THEN /\ users' = [users EXCEPT ![target] = NoRow]
            /\ result' = Answer("", {}, 1)
            /\ UNCHANGED todoRows
       ELSE /\ result' = Answer("", {}, 0)
            /\ UNCHANGED <<users, todoRows>>
  /\ UNCHANGED <<authUsers, handlerVars, uiVars>>

\* delete from public.users where id = target; the tasks that reference the
\* profile go with it (ON DELETE CASCADE)
DeleteUsers(uid, target) ==
  /\ statement' = Statement("delete", "users", uid)
  /\ IF users[target].exists /\ UsersCanDeleteOwnProfile(uid, users[target])
       THEN /\ users' = [users EXCEPT ![target] = NoRow]
            /\ todoRows' = [i \in DOMAIN todoRows |->
                              IF todoRows[i].exists /\ todoRows[i].user_id = target
                                THEN NoRow ELSE todoRows[i]]
            /\ result' = Answer("", {}, 1)
       ELSE /\ result' = Answer("", {}, 0)
            /\ UNCHANGED <<users, todoRows>>
  /\ UNCHANGED <<authUsers, handlerVars, uiVars>>

\* select * from public.todos
SelectTodos(uid) ==
  /\ statement' = Statement("select", "todos", uid)
  /\ result' = Answer("", {todoRows[i] : i \in {j \in DOMAIN todoRows :
                              todoRows[j].exists /\ UsersCanViewOwnTodos(uid, todoRows[j])}}, 0)
  /\ UNCHANGED <<authUsers, users, todoRows, handlerVars, uiVars>>

\* insert into public.todos (user_id, title, priority, completed) values
\* (...), priority taking its default when the statement leaves it out and
\* created_date its default, the instant of the insert: created_date
\* stands for TIMEZONE('utc', NOW())
InsertTodos(uid, values, created_date) ==
  /\ statement' = Statement("insert", "todos", uid)
  /\ \E id \in DOMAIN todoRows :
       /\ ~todoRows[id].exists
       /\ \A j \in 1..(id - 1) : todoRows[j].exists
       /\ LET row == TodoRow(id, values.user_id, values.title, created_date,
                             IF values.priority = Undefined THEN Str(medium)
                                                            ELSE values.priority,
                             values.completed, uid)
          IN IF ~UsersCanInsertOwnTodos(uid, row)
               THEN result' = Answer(rlsViolation, {}, 0) /\ UNCHANGED todoRows
             ELSE IF ~todosNotNull(row)
               THEN result' = Answer(notNullViolation, {}, 0) /\ UNCHANGED todoRows
             ELSE IF ~priorityCheck(row)
               THEN result' = Answer(checkViolation, {}, 0) /\ UNCHANGED todoRows
             ELSE IF ~todosUserIdFkey(row)
               THEN result' = Answer(foreignKeyViolation, {}, 0) /\ UNCHANGED todoRows
             ELSE /\ todoRows' = [todoRows EXCEPT ![id] = row]
                  /\ result' = Answer("", {row}, 1)
  /\ UNCHANGED <<authUsers, users, handlerVars, uiVars>>

\* update public.todos set ... where id = target
UpdateTodos(uid, target, patch) ==
  /\ statement' = Statement("update", "todos", uid)
  /\ LET row == Patched(todoRows[target], patch) IN
     IF ~(todoRows[target].exists /\ UsersCanUpdateOwnTodosUsing(uid, todoRows[target]))
       THEN result' = Answer("", {}, 0) /\ UNCHANGED todoRows
     ELSE IF ~UsersCanUpdateOwnTodos(uid, row)
       THEN result' = Answer(rlsViolation, {}, 0) /\ UNCHANGED todoRows
     ELSE IF ~todosNotNull(row)
       THEN result' = Answer(notNullViolation, {}, 0) /\ UNCHANGED todoRows
     ELSE IF ~priorityCheck(row)
       THEN result' = Answer(checkViolation, {}, 0) /\ UNCHANGED todoRows
     ELSE IF ~todosUserIdFkey(row)
       THEN result' = Answer(foreignKeyViolation, {}, 0) /\ UNCHANGED todoRows
     ELSE /\ todoRows' = [todoRows EXCEPT ![target] = row]
          /\ result' = Answer("", {}, 1)
  /\ UNCHANGED <<authUsers, users, handlerVars, uiVars>>

\* delete from public.todos where id = target
DeleteTodos(uid, target) ==
  /\ statement' = Statement("delete", "todos", uid)
  /\ IF todoRows[target].exists /\ UsersCanDeleteOwnTodos(uid, todoRows[target])
       THEN /\ todoRows' = [todoRows EXCEPT ![target] = NoRow]
            /\ result' = Answer("", {}, 1)
       ELSE /\ result' = Answer("", {}, 0)
            /\ UNCHANGED todoRows
  /\ UNCHANGED <<authUsers, users, handlerVars, uiVars>>

\* the identities statements arrive with
Requesters == authUsers \cup {NoUid}

\* the values of an insert into public.todos and the columns set by an
\* update of it; Undefined stands for a column the insert leaves out
TodoValues ==
  {[user_id |-> u, title |-> "a", priority |-> p, completed |-> FALSE] :
     u \in Uids \cup {NoUid}, p \in {Undefined, Null, Str(urgent)}}
TodoPatches ==
  {[completed |-> TRUE]}
  \cup {[priority |-> p] : p \in {Str(low), Str(urgent), Null}}
  \cup {[user_id |-> u] : u \in Uids \cup {NoUid}}
\* the instant of the inserts made at the store, and the instants of those
\* made through the page
StoreTime == 1
InsertTimes == {1, 2}
ProfilePatches == {[name |-> "m"]} \cup {[id |-> u] : u \in Uids}

NextStore ==
  \/ \E id \in Uids : SignUp(id) /\ UNCHANGED pageVars
  \/ \E uid \in Requesters : SelectUsers(uid) /\ UNCHANGED pageVars
  \/ \E uid \in Requesters, id \in Uids :
       InsertUsers(uid, id, "n") /\ UNCHANGED pageVars
  \/ \E uid \in Requesters, target \in Uids, patch \in ProfilePatches :
       UpdateUsers(uid, target, patch) /\ UNCHANGED pageVars
  \/ \E uid \in Requesters, target \in Uids :
       DeleteUsers(uid, target) /\ UNCHANGED pageVars
  \/ \E uid \in Requesters : SelectTodos(uid) /\ UNCHANGED pageVars
  \/ \E uid \in Requesters, values \in TodoValues :
       InsertTodos(uid, values, StoreTime) /\ UNCHANGED pageVars
  \/ \E uid \in Requesters, target \in DOMAIN todoRows, patch \in TodoPatches :
       UpdateTodos(uid, target, patch) /\ UNCHANGED pageVars
  \/ \E uid \in Requesters, target \in DOMAIN todoRows :
       DeleteTodos(uid, target) /\ UNCHANGED pageVars

InitStore == Init /\ apiKey

SpecStore == InitStore /\ [][NextStore]_vars

(***************************************************************************)
(* Properties of the storage layer                                         *)
(***************************************************************************)
\* the owner of a row of either table
OwnerOf(row) == IF "user_id" \in DOMAIN row THEN row.user_id ELSE row.id

\* C16: a select, insert, update or delete on public.todos or public.users
\* takes effect only on rows owned by the identity of the statement: every
\* row it returns, every row it creates, changes or deletes, before and
\* after the statement, is owned by auth.uid().
C16_OwnRowsOnly ==
  [][/\ \A i \in DOMAIN todoRows :
          todoRows'[i] # todoRows[i] =>
            /\ todoRows[i].exists => todoRows[i].user_id = statement'.uid
            /\ todoRows'[i].exists => todoRows'[i].user_id = statement'.uid
     /\ \A u \in Uids :
          users'[u] # users[u] =>
            /\ u = statement'.uid
            /\ users'[u].exists => users'[u].id = statement'.uid
     /\ \A row \in result'.rows : OwnerOf(row) = statement'.uid
    ]_vars

\* every task belongs to u1, the table is full, and a delete sent by u2 has
\* removed nothing
C16_Witness ==
  /\ statement = Statement("delete", "todos", "u2")
  /\ result = Answer("", {}, 0)
  /\ \A i \in DOMAIN todoRows : todoRows[i].exists /\ todoRows[i].user_id = "u1"

\* C17: every row of public.todos has one owner, a registered identity with
\* a profile, the owner is the identity whose statement inserted the row,
\* and the priority of the row is high, medium or low.
C17_OwnerAndPriority ==
  \A i \in DOMAIN todoRows :
    todoRows[i].exists =>
      /\ todoRows[i].user_id \in authUsers
      /\ users[todoRows[i].user_id].exists
      /\ todoRows[i].user_id = todoRows[i].creator
      /\ todoRows[i].priority \in {Str(high), Str(medium), Str(low)}

\* an update that would have set a priority outside the three has been
\* refused, after an update that completed a task
C17_Witness ==
  /\ statement \in {Statement("update", "todos", u) : u \in Uids}
  /\ result = Answer(checkViolation, {}, 0)
  /\ \E i \in DOMAIN todoRows :
       /\ todoRows[i].exists
       /\ todoRows[i].completed
       /\ todoRows[i].priority = Str(low)

(***************************************************************************)
(* The page: the handlers that load, add, edit, delete and toggle tasks.   *)
(* A handler runs from one await to the next in one step; the step at      *)
(* which a call to the storage layer settles is the step at which the      *)
(* storage layer runs the statement, unless the call fails on its way.     *)
(***************************************************************************)
\* the fixed messages of the page (Korean sentences in the source)
reauthenticate == Msg("AUTH EXPIRED, LOG IN AGAIN", {})
loginRequired == Msg("LOGIN REQUIRED", {})
profileMissing == Msg("NO PROFILE, RELOAD THE PAGE", {})
loadFailed == Msg("ERROR WHILE LOADING", {})
addFailed == Msg("ERROR WHILE ADDING", {})
updateFailed == Msg("ERROR WHILE UPDATING", {})
deleteFailed == Msg("ERROR WHILE DELETING", {})
toggleFailed == Msg("ERROR WHILE TOGGLING", {})

\* the error object of a failed call
PostgrestError(message, details, hint, code) ==
  [message |-> message, details |-> details, hint |-> hint, code |-> code]
NoError == [code |-> "ok"]

\* the error object the client builds for an error code of the database
errorOfCode(code) ==
  IF code = "" THEN NoError
  ELSE IF code = foreignKeyViolation
    THEN PostgrestError(
           Msg("violates foreign key constraint todos_user_id_fkey",
               {"foreign key constraint", "todos_user_id_fkey"}),
           Msg("Key is not present in table users.", {}), NoMessage, code)
  ELSE PostgrestError(Msg("database error", {}), NoMessage, NoMessage, code)

\* calls that fail on their way to the database or at its gate
jwtExpired ==
  PostgrestError(Msg("JWT expired", {"JWT", "expired"}), NoMessage, NoMessage, "PGRST301")
tokenExpired ==
  PostgrestError(Msg("token is expired", {"expired"}), NoMessage, NoMessage, "")
fetchFailed ==
  PostgrestError(Msg("TypeError: Failed to fetch", {}), NoMessage, NoMessage, "")
detailsOnly ==
  PostgrestError(NoMessage, Msg("connection refused", {}), NoMessage, "")
NoFault == NoError
Faults == {jwtExpired, tokenExpired, fetchFailed, detailsOnly}

\* a || b for messages
OrElse(a, b) == IF a.text # "" THEN a ELSE b

\* the call issued last has settled
Settled(failed) ==
  [storageCalls EXCEPT ![Len(storageCalls)].failed = failed]
\* ... and the handler has issued the next call
Issued(failed, call) ==
  Append(Settled(failed), [call |-> call, failed |-> FALSE])

\* the error of the call that settles: the fault, or what the database said
\* of the statement it has just run
Settling(fault) == IF fault # NoFault THEN fault ELSE errorOfCode(result'.error)

\* a handler starts: setError(null), then await supabase.auth.getUser()
Start(handler, args) ==
  /\ pagePc = "idle"
  /\ session # NoUid
  /\ pageError' = NoMessage
  /\ locals' = [handler |-> handler, args |-> args, authUser |-> NoUid,
                reported |-> NoError, by |-> "none"]
  /\ storageCalls' = <<[call |-> "getUser", failed |-> FALSE]>>
  /\ pagePc' = "getUser"
  /\ UNCHANGED <<session, pageTodos, storeVars, handlerVars, uiVars>>

\* the handler ends having shown message for the error of the call `by`
Shown(message, error, by) ==
  /\ pageError' = message
  /\ locals' = [locals EXCEPT !.reported = error, !.by = by]
  /\ pagePc' = "returned"

\* the handler has returned; its locals are gone
Returned ==
  /\ pagePc = "returned"
  /\ pagePc' = "idle"
  /\ locals' = None
  /\ storageCalls' = <<>>
  /\ UNCHANGED <<session, pageTodos, pageError, storeVars, handlerVars, uiVars>>

\* a sign-in in this browser
SignIn(uid) ==
  /\ pagePc = "idle"
  /\ session = NoUid
  /\ uid \in authUsers
  /\ session' = uid
  /\ UNCHANGED <<pagePc, locals, pageTodos, pageError, storageCalls>>
  /\ UNCHANGED <<storeVars, handlerVars, uiVars>>

\* loadTodos, lines 150-197, called when the page mounts
loadTodos == Start("load", None)

\* loadTodos: getUser has settled (lines 156-167); the session may have gone
LoadGotUser(authUser) ==
  /\ pagePc \in {"getUser", "load.getUser"}
  /\ pagePc = "getUser" => locals.handler = "load"
  /\ IF authUser = NoUid
       THEN /\ pageTodos' = {}
            /\ storageCalls' = Settled(TRUE)
            /\ pagePc' = "returned"
            /\ UNCHANGED locals
       ELSE /\ locals' = [locals EXCEPT !.authUser = authUser]
            /\ storageCalls' = Issued(FALSE, "select todos")
            /\ pagePc' = "load.selectTodos"
            /\ UNCHANGED pageTodos
  /\ UNCHANGED <<session, pageError, storeVars, handlerVars, uiVars>>

\* a test that also takes a message with "expired" for an expired credential
jwtOrExpiredMessage(err) ==
  \/ err.message.text = "JWT expired"
  \/ "JWT" \in err.message.has
  \/ "expired" \in err.message.has

\* err.message === "JWT expired" || err.message?.includes("JWT")
jwtMessage(err) == err.message.text = "JWT expired" \/ "JWT" \in err.message.has

\* loadTodos: the select has settled (lines 164-196)
LoadSelected(fault) ==
  /\ pagePc = "load.selectTodos"
  /\ IF fault = NoFault THEN SelectTodos(locals.authUser)
                        ELSE UNCHANGED <<storeVars, handlerVars, uiVars>>
  /\ LET fetchError == Settling(fault) IN
     IF fetchError # NoError
       THEN /\ Shown(IF jwtMessage(fetchError) THEN reauthenticate ELSE loadFailed,
                     fetchError, "load")
            /\ storageCalls' = Settled(TRUE)
            /\ UNCHANGED pageTodos
       ELSE /\ pageTodos' = {[id |-> row.id, priority |-> row.priority,
                              completed |-> row.completed] : row \in result'.rows}
            /\ storageCalls' = Settled(FALSE)
            /\ pagePc' = "returned"
            /\ UNCHANGED <<locals, pageError>>
  /\ UNCHANGED session

\* await loadTodos() inside a handler: setError(null), then getUser
CallLoadTodos ==
  /\ storageCalls' = Issued(FALSE, "getUser")
  /\ pagePc' = "load.getUser"
  /\ pageError' = NoMessage

\* handleAddTodo, lines 199-360; the tasks added through the page are
\* bounded by MaxPageTodos
handleAddTodo(data) ==
  /\ Cardinality({i \in DOMAIN todoRows : todoRows[i].exists}) < MaxPageTodos
  /\ Start("add", data)

\* getUser has settled in handleAddTodo, handleUpdateTodo, handleDeleteTodo
\* or handleToggleComplete: without a user the handler ends, with one it
\* issues its first statement
GotUser(authUser) ==
  /\ pagePc = "getUser"
  /\ locals.handler # "load"
  /\ IF authUser = NoUid
       THEN /\ Shown(loginRequired, NoError, "getUser")
            /\ storageCalls' = Settled(TRUE)
       ELSE /\ locals' = [locals EXCEPT !.authUser = authUser]
            /\ storageCalls' =
                 Issued(FALSE, CASE locals.handler = "add" -> "select users"
                                 [] locals.handler = "update" -> "update todos"
                                 [] locals.handler = "delete" -> "delete todos"
                                 [] locals.handler = "toggle" -> "update todos")
            /\ pagePc' = IF locals.handler = "add" THEN "selectUser" ELSE locals.handler
            /\ UNCHANGED pageError
  /\ UNCHANGED <<session, pageTodos, storeVars, handlerVars, uiVars>>

\* handleAddTodo: the select of the profile has settled (lines 212-236);
\* .single() gives no row when the select fails or finds none
AddCheckedUser(fault) ==
  /\ pagePc = "selectUser"
  /\ IF fault = NoFault THEN SelectUsers(locals.authUser)
                        ELSE UNCHANGED <<storeVars, handlerVars, uiVars>>
  /\ LET existingUser == fault = NoFault /\ result'.rows # {} IN
     IF ~existingUser
       THEN /\ storageCalls' = Issued(TRUE, "insert users")
            /\ pagePc' = "insertUser"
       ELSE /\ storageCalls' = Issued(FALSE, "insert todos")
            /\ pagePc' = "insertTodo"
  /\ UNCHANGED <<session, locals, pageTodos, pageError>>

\* handleAddTodo: the insert of the profile has settled (lines 225-235); its
\* error is logged only
AddInsertedUser(fault) ==
  /\ pagePc = "insertUser"
  /\ IF fault = NoFault THEN InsertUsers(locals.authUser, locals.authUser, "n")
                        ELSE UNCHANGED <<storeVars, handlerVars, uiVars>>
  /\ storageCalls' = Issued(Settling(fault) # NoError, "insert todos")
  /\ pagePc' = "insertTodo"
  /\ UNCHANGED <<session, locals, pageTodos, pageError>>

\* the row handleAddTodo inserts
addedTodo == [user_id |-> locals.authUser, title |-> locals.args.title,
              priority |-> locals.args.priority, completed |-> FALSE]

\* lines 253-257: the error is a foreign key violation
isForeignKeyError(insertError) ==
  \/ "foreign key constraint" \in insertError.message.has
  \/ "todos_user_id_fkey" \in insertError.message.has
  \/ insertError.code = "23503"

\* handleAddTodo: the insert of the task has settled (lines 238-333)
AddInsertedTodo(fault) ==
  /\ pagePc = "insertTodo"
  /\ IF fault = NoFault
       THEN \E instant \in InsertTimes : InsertTodos(locals.authUser, addedTodo, instant)
                        ELSE UNCHANGED <<storeVars, handlerVars, uiVars>>
  /\ LET insertError == Settling(fault)
         errorMessage ==
           OrElse(insertError.message,
                  OrElse(insertError.details, OrElse(insertError.hint, addFailed)))
     IN IF insertError = NoError
          THEN /\ CallLoadTodos
               /\ UNCHANGED locals
        ELSE IF isForeignKeyError(insertError)
          THEN /\ storageCalls' = Issued(TRUE, "insert users")
               /\ pagePc' = "insertUserAgain"
               /\ UNCHANGED <<locals, pageError>>
        ELSE /\ Shown(IF \/ errorMessage.text = "JWT expired"
                         \/ "JWT" \in errorMessage.has
                         \/ "expired" \in errorMessage.has
                        THEN reauthenticate ELSE errorMessage,
                      insertError, "insert todos")
             /\ storageCalls' = Settled(TRUE)
  /\ UNCHANGED <<session, pageTodos>>

\* handleAddTodo: the insert of the profile after the foreign key violation
\* has settled (lines 259-269)
AddInsertedUserAgain(fault) ==
  /\ pagePc = "insertUserAgain"
  /\ IF fault = NoFault THEN InsertUsers(locals.authUser, locals.authUser, "n")
                        ELSE UNCHANGED <<storeVars, handlerVars, uiVars>>
  /\ LET insertUserError == Settling(fault) IN
     IF insertUserError # NoError
       THEN /\ Shown(profileMissing, insertUserError, "insert users again")
            /\ storageCalls' = Settled(TRUE)
       ELSE /\ storageCalls' = Issued(FALSE, "insert todos")
            /\ pagePc' = "insertTodoAgain"
            /\ UNCHANGED <<locals, pageError>>
  /\ UNCHANGED <<session, pageTodos>>

\* an insert that is sent a third time when the second fails
AddInsertedTodoAgainAndAgain(fault) ==
  /\ pagePc = "insertTodoAgain"
  /\ IF fault = NoFault
       THEN \E instant \in InsertTimes : InsertTodos(locals.authUser, addedTodo, instant)
                        ELSE UNCHANGED <<storeVars, handlerVars, uiVars>>
  /\ LET retryInsertError == Settling(fault) IN
     IF retryInsertError # NoError /\ Len(storageCalls) < 7
       THEN /\ storageCalls' = Issued(TRUE, "insert todos")
            /\ UNCHANGED <<pagePc, locals, pageError>>
     ELSE IF retryInsertError # NoError
       THEN /\ Shown(OrElse(retryInsertError.message,
                            OrElse(retryInsertError.details, addFailed)),
                     retryInsertError, "insert todos again")
            /\ storageCalls' = Settled(TRUE)
       ELSE /\ CallLoadTodos
            /\ UNCHANGED locals
  /\ UNCHANGED <<session, pageTodos>>

\* handleAddTodo: the second insert of the task has settled (lines 271-298)
AddInsertedTodoAgain(fault) ==
  /\ pagePc = "insertTodoAgain"
  /\ IF fault = NoFault
       THEN \E instant \in InsertTimes : InsertTodos(locals.authUser, addedTodo, instant)
                        ELSE UNCHANGED <<storeVars, handlerVars, uiVars>>
  /\ LET retryInsertError == Settling(fault) IN
     IF retryInsertError # NoError
       THEN /\ Shown(OrElse(retryInsertError.message,
                            OrElse(retryInsertError.details, addFailed)),
                     retryInsertError, "insert todos again")
            /\ storageCalls' = Settled(TRUE)
       ELSE /\ CallLoadTodos
            /\ UNCHANGED locals
  /\ UNCHANGED <<session, pageTodos>>

\* handleUpdateTodo, lines 362-404, for the task being edited
handleUpdateTodo(editingTodo, data) ==
  /\ editingTodo \in pageTodos
  /\ Start("update", [id |-> editingTodo.id, title |-> data.title,
                      priority |-> data.priority])

\* handleDeleteTodo, lines 406-441
handleDeleteTodo(id) == Start("delete", [id |-> id])

\* handleToggleComplete, lines 443-476
handleToggleComplete(id, completed) ==
  Start("toggle", [id |-> id, completed |-> completed])

\* the statement of handleUpdateTodo, handleDeleteTodo or handleToggleComplete
\* has settled: an error is thrown to the catch block of the handler, which
\* shows its own message; without one the list is loaded again
Mutated(fault, failedMessage) ==
  /\ LET error == Settling(fault) IN
     IF error # NoError
       THEN /\ Shown(IF jwtMessage(error) THEN reauthenticate ELSE failedMessage,
                     error, locals.handler)
            /\ storageCalls' = Settled(TRUE)
       ELSE /\ CallLoadTodos
            /\ UNCHANGED locals
  /\ UNCHANGED <<session, pageTodos>>

\* lines 379-385: the columns handleUpdateTodo sets
editUpdate(data) == [title |-> data.title, priority |-> data.priority]

\* line 458 with the priority set too
toggleUpdateWithPriority(completed) ==
  [completed |-> completed, priority |-> Str(medium)]

\* line 458: the column handleToggleComplete sets
toggleUpdate(completed) == [completed |-> completed]

\* handleUpdateTodo: the update has settled (lines 377-403)
Updated(fault) ==
  /\ pagePc = "update"
  /\ IF fault = NoFault
       THEN UpdateTodos(locals.authUser, locals.args.id, editUpdate(locals.args))
       ELSE UNCHANGED <<storeVars, handlerVars, uiVars>>
  /\ Mutated(fault, updateFailed)

\* handleDeleteTodo: the delete has settled (lines 419-440)
Deleted(fault) ==
  /\ pagePc = "delete"
  /\ IF fault = NoFault THEN DeleteTodos(locals.authUser, locals.args.id)
                        ELSE UNCHANGED <<storeVars, handlerVars, uiVars>>
  /\ Mutated(fault, deleteFailed)

\* handleToggleComplete: the update has settled (lines 456-475)
Toggled(fault) ==
  /\ pagePc = "toggle"
  /\ IF fault = NoFault
       THEN UpdateTodos(locals.authUser, locals.args.id,
                        toggleUpdate(locals.args.completed))
       ELSE UNCHANGED <<storeVars, handlerVars, uiVars>>
  /\ Mutated(fault, toggleFailed)

\* the values the form is submitted with; title stands for the texts of
\* the form: title, description, due_date and category
FormValues == {[title |-> "a", priority |-> Str(high)],
               [title |-> "b", priority |-> Str(low)]}
\* what a call may meet on its way
FaultsOrNone == Faults \cup {NoFault}
\* the identities that use this browser
PageUids == {"u1"}

NextPage ==
  \/ \E id \in PageUids : SignUp(id) /\ UNCHANGED pageVars
  \/ \E uid \in PageUids : SignIn(uid)
  \/ \E uid \in PageUids : DeleteUsers(uid, uid) /\ UNCHANGED pageVars
  \/ loadTodos
  \/ \E authUser \in {session, NoUid} : LoadGotUser(authUser)
  \/ \E fault \in FaultsOrNone : LoadSelected(fault)
  \/ \E data \in FormValues : handleAddTodo(data)
  \/ \E authUser \in {session, NoUid} : GotUser(authUser)
  \/ \E fault \in FaultsOrNone : AddCheckedUser(fault)
  \/ \E fault \in FaultsOrNone : AddInsertedUser(fault)
  \/ \E fault \in FaultsOrNone : AddInsertedTodo(fault)
  \/ \E fault \in FaultsOrNone : AddInsertedUserAgain(fault)
  \/ \E fault \in FaultsOrNone : AddInsertedTodoAgain(fault)
  \/ \E editingTodo \in pageTodos, data \in FormValues :
       handleUpdateTodo(editingTodo, data)
  \/ \E fault \in FaultsOrNone : Updated(fault)
  \/ \E todo \in pageTodos : handleDeleteTodo(todo.id)
  \/ \E fault \in FaultsOrNone : Deleted(fault)
  \/ \E todo \in pageTodos : handleToggleComplete(todo.id, ~todo.completed)
  \/ \E fault \in FaultsOrNone : Toggled(fault)
  \/ Returned

SpecPage == InitStore /\ [][NextPage]_vars

(***************************************************************************)
(* Properties of the page                                                  *)
(***************************************************************************)
\* the calls of the running handler that were issued again after they failed
Reissued ==
  {<<i, j>> \in (DOMAIN storageCalls) \X (DOMAIN storageCalls) :
     /\ i < j
     /\ storageCalls[i].call = storageCalls[j].call
     /\ storageCalls[i].failed}

\* C18 as stated: no handler issues again a call that has failed.
C18_NoRetryAsStated == Reissued = {}

\* C18: a handler issues no call again after it failed, but for
\* handleAddTodo: when the insert of the task fails with a foreign key
\* violation it inserts the profile (again, if it had tried before) and, if
\* that succeeds, sends the insert of the task once more; no call is issued
\* a third time.
C18_NoRetry ==
  /\ \A p \in Reissued :
       /\ locals.handler = "add"
       /\ \/ /\ storageCalls[p[2]].call = "insert todos"
             /\ p[2] = p[1] + 2
             /\ storageCalls[p[1] + 1] = [call |-> "insert users", failed |-> FALSE]
          \/ /\ storageCalls[p[2]].call = "insert users"
             /\ storageCalls[p[2] - 1] = [call |-> "insert todos", failed |-> TRUE]
  /\ \A i \in DOMAIN storageCalls :
       Cardinality({j \in DOMAIN storageCalls :
                      storageCalls[j].call = storageCalls[i].call}) <= 2
  /\ \A i, j \in DOMAIN storageCalls :
       (i < j /\ storageCalls[i].call = storageCalls[j].call
          /\ storageCalls[i].call # "getUser")
       => storageCalls[i].call \in {"insert todos", "insert users"}

\* handleAddTodo has sent the insert of the task twice, the second with
\* success, and has returned
C18_Witness ==
  /\ pagePc = "returned"
  /\ \E i \in DOMAIN storageCalls :
       /\ storageCalls[i] = [call |-> "insert todos", failed |-> TRUE]
       /\ i + 2 \in DOMAIN storageCalls
       /\ storageCalls[i + 2] = [call |-> "insert todos", failed |-> FALSE]
  /\ \E i \in DOMAIN todoRows : todoRows[i].exists

\* a handler has returned after showing a message for an error of the
\* storage layer
ErrorShown == pagePc = "returned" /\ locals.reported # NoError

TextOf(error, texts) ==
  LET present == SelectSeq(texts, LAMBDA m : m.text # "") IN
  IF present = <<>> THEN addFailed ELSE present[1]

ConcurrentInputs == {Num(0), Str(Padded(Rep("a", minInputLength), MaxPad))}
ConcurrentTodoReplies ==
  {TodoObject(Str(<<"a", "b">>), Undefined, dd, Str(<<"1", "4", ":", "0", "0">>),
              Str(low), Undefined) :
     dd \in {Str(DateStr(2026, 3, 1)), Str(DateStr(2026, 3, 10)), Undefined}}
ConcurrentErrors == {[message |-> {"timeout"}, status |-> 0], [message |-> {}, status |-> 429]}
ConcurrentLists == {Null, Arr(<<>>), Arr(<<Todo(FALSE, Str(high), DueAt(StatDay, 13))>>)}
ConcurrentPeriods == {Str(todayPeriod), Str(tomorrowPeriod)}
ConcurrentAnalysisReplies ==
  StatReplies \cup {[r EXCEPT !.summary = Undefined] : r \in StatReplies}

\* another invocation is awaiting generateObject
InFlight(k) == \E j \in Slots \ {k} : requests[j].pc = "awaiting"

\* a `now` kept at module level, which every call of POST overwrites: that of
\* the invocation that started last of those awaiting generateObject, taken
\* as the highest slot
nowOfModule(k) ==
  LET lastInFlight ==
        CHOOSE j \in Slots :
          /\ requests[j].pc = "awaiting"
          /\ \A i \in Slots : requests[i].pc = "awaiting" => i <= j
  IN requests[lastInFlight].now

\* generate-todo line 101: `const now = new Date()` is a local of the call
nowOf(k) == requests[k].now

\* the invocation returns the Response
Replied(r, res, settled) ==
  [r EXCEPT !.pc = "replied", !.response = res, !.outcome = settled]

\* the invocation awaits generateObject({...})
Awaiting(r, date, p) ==
  [r EXCEPT !.pc = "awaiting", !.now = date, !.prompt = p]

\* generate-todo POST, lines 74-131, as one of several invocations
ConcurrentGeneratePost(k, naturalLanguageInput, date) ==
  /\ requests[k].pc = "idle"
  /\ LET arrived == [requests[k] EXCEPT
                       !.route = "generate-todo",
                       !.body = [naturalLanguageInput |-> naturalLanguageInput],
                       !.overlaps = InFlight(k)]
         validation == validateInput(naturalLanguageInput)
     IN requests' = [requests EXCEPT ![k] =
          IF ~validation.valid
            THEN Replied(arrived, [status |-> validation.status, success |-> FALSE,
                                   error |-> validation.error], None)
          ELSE IF ~apiKey
            THEN Replied(arrived, [status |-> 500, success |-> FALSE,
                                   error |-> "ConfigError"], None)
          ELSE Awaiting(arrived, date, generatePrompt(naturalLanguageInput.s, date))]
  /\ UNCHANGED <<apiKey, pc, route, body, now, calls, prompt, outcome, replies, response>>
  /\ UNCHANGED <<storeVars, pageVars, uiVars>>

\* generate-todo POST, lines 131-325: generateObject yields a value or throws
ConcurrentGenerateSettles(k, settled) ==
  /\ requests[k].pc = "awaiting"
  /\ requests[k].route = "generate-todo"
  /\ requests' = [requests EXCEPT ![k] =
       IF settled.kind = "error"
         THEN Replied(@, generateCatch(settled.error), settled)
       ELSE IF todoSchemaAccepts(settled.raw)
         THEN Replied(@, [status |-> 200, success |-> TRUE,
                          data |-> repair(todoSchemaParse(settled.raw),
                                          toISODate(nowOf(k)))], settled)
       ELSE Replied(@, generateCatch(schemaMismatch), settled)]
  /\ UNCHANGED <<apiKey, pc, route, body, now, calls, prompt, outcome, replies, response>>
  /\ UNCHANGED <<storeVars, pageVars, uiVars>>

\* analyze-todos POST, lines 406-578, as one of several invocations
ConcurrentAnalyzePost(k, todos, period, date) ==
  /\ requests[k].pc = "idle"
  /\ LET arrived == [requests[k] EXCEPT
                       !.route = "analyze-todos",
                       !.body = [todos |-> todos, period |-> period],
                       !.overlaps = InFlight(k)]
     IN requests' = [requests EXCEPT ![k] =
          IF todosMissing(todos)
            THEN Replied(arrived, [status |-> 400, success |-> FALSE,
                                   error |-> "todos_required"], None)
          ELSE IF periodMissing(period)
            THEN Replied(arrived, [status |-> 400, success |-> FALSE,
                                   error |-> "period_required"], None)
          ELSE IF ~apiKey
            THEN Replied(arrived, [status |-> 500, success |-> FALSE,
                                   error |-> "ConfigError"], None)
          ELSE IF priorityStatsThrows(todos)
            THEN Replied(arrived, analyzeCatch(typeError),
                         [kind |-> "thrown", error |-> typeError])
          ELSE Awaiting(arrived, date,
                        [period |-> period.s, statistics |-> statistics(todos, date)])]
  /\ UNCHANGED <<apiKey, pc, route, body, now, calls, prompt, outcome, replies, response>>
  /\ UNCHANGED <<storeVars, pageVars, uiVars>>

\* analyze-todos POST, lines 578-714: generateObject yields a value or throws
ConcurrentAnalyzeSettles(k, settled) ==
  /\ requests[k].pc = "awaiting"
  /\ requests[k].route = "analyze-todos"
  /\ requests' = [requests EXCEPT ![k] =
       IF settled.kind = "error"
         THEN Replied(@, analyzeCatch(settled.error), settled)
       ELSE IF analysisSchemaAccepts(settled.raw)
         THEN Replied(@, [status |-> 200, success |-> TRUE, data |-> settled.raw],
                      settled)
       ELSE Replied(@, analyzeCatch(schemaMismatch), settled)]
  /\ UNCHANGED <<apiKey, pc, route, body, now, calls, prompt, outcome, replies, response>>
  /\ UNCHANGED <<storeVars, pageVars, uiVars>>

\* the invocation has returned and its locals are gone
ConcurrentDone(k) ==
  /\ requests[k].pc = "replied"
  /\ requests' = [requests EXCEPT ![k] = IdleRequest]
  /\ UNCHANGED <<apiKey, pc, route, body, now, calls, prompt, outcome, replies, response>>
  /\ UNCHANGED <<storeVars, pageVars, uiVars>>

NextConcurrent ==
  \/ \E k \in Slots, input \in ConcurrentInputs, date \in Nows :
       ConcurrentGeneratePost(k, input, date)
  \/ \E k \in Slots, raw \in ConcurrentTodoReplies :
       ConcurrentGenerateSettles(k, [kind |-> "object", raw |-> raw])
  \/ \E k \in Slots, error \in ConcurrentErrors :
       ConcurrentGenerateSettles(k, [kind |-> "error", error |-> error])
  \/ \E k \in Slots, todos \in ConcurrentLists, period \in ConcurrentPeriods,
        date \in Instants :
       ConcurrentAnalyzePost(k, todos, period, date)
  \/ \E k \in Slots, raw \in ConcurrentAnalysisReplies :
       ConcurrentAnalyzeSettles(k, [kind |-> "object", raw |-> raw])
  \/ \E k \in Slots, error \in StatErrors :
       ConcurrentAnalyzeSettles(k, [kind |-> "error", error |-> error])
  \/ \E k \in Slots : ConcurrentDone(k)

SpecConcurrent == Init /\ [][NextConcurrent]_vars

\* what generate-todo gives generateObject, and what it returns, for the
\* request r when no other request is handled: r's input, r's `now` and how
\* r's call of generateObject settled
AloneGeneratePrompt(r) == generatePrompt(r.body.naturalLanguageInput.s, r.now)
AloneGenerate(r) ==
  LET validation == validateInput(r.body.naturalLanguageInput) IN
  IF ~validation.valid
    THEN [status |-> validation.status, success |-> FALSE, error |-> validation.error]
  ELSE IF ~apiKey
    THEN [status |-> 500, success |-> FALSE, error |-> "ConfigError"]
  ELSE IF r.outcome.kind = "error" THEN generateCatch(r.outcome.error)
  ELSE IF todoSchemaAccepts(r.outcome.raw)
    THEN [status |-> 200, success |-> TRUE,
          data |-> repair(todoSchemaParse(r.outcome.raw), toISODate(r.now))]
  ELSE generateCatch(schemaMismatch)

\* the same for analyze-todos
AloneAnalyzePrompt(r) ==
  [period |-> r.body.period.s, statistics |-> statistics(r.body.todos, r.now)]
AloneAnalyze(r) ==
  IF todosMissing(r.body.todos)
    THEN [status |-> 400, success |-> FALSE, error |-> "todos_required"]
  ELSE IF periodMissing(r.body.period)
    THEN [status |-> 400, success |-> FALSE, error |-> "period_required"]
  ELSE IF ~apiKey
    THEN [status |-> 500, success |-> FALSE, error |-> "ConfigError"]
  ELSE IF priorityStatsThrows(r.body.todos) THEN analyzeCatch(typeError)
  ELSE IF r.outcome.kind = "error" THEN analyzeCatch(r.outcome.error)
  ELSE IF analysisSchemaAccepts(r.outcome.raw)
    THEN [status |-> 200, success |-> TRUE, data |-> r.outcome.raw]
  ELSE analyzeCatch(schemaMismatch)

\* C20: whatever the interleaving of the requests handled at once, each
\* request gives generateObject the prompt, and returns the response, that it
\* gives and returns when handled alone with the same input, the same `now`
\* and the same settling of its call of generateObject
C20_NoSharedState ==
  \A k \in Slots :
    LET r == requests[k] IN
    /\ r.pc \in {"awaiting", "replied"} /\ r.prompt # None =>
         r.prompt = IF r.route = "generate-todo"
                      THEN AloneGeneratePrompt(r) ELSE AloneAnalyzePrompt(r)
    /\ r.pc = "replied" =>
         r.response = IF r.route = "generate-todo"
                        THEN AloneGenerate(r) ELSE AloneAnalyze(r)

\* two generate-todo requests with different days of `now` were in progress
\* at once, generateObject settled with the same value for both, and each got
\* the due date repaired against its own day
C20_Witness ==
  \E j, k \in Slots :
    /\ j # k
    /\ requests[j].pc = "replied" /\ requests[k].pc = "replied"
    /\ requests[j].route = "generate-todo" /\ requests[k].route = "generate-todo"
    /\ requests[k].overlaps
    /\ requests[j].now # requests[k].now
    /\ requests[j].outcome = requests[k].outcome
    /\ requests[j].response.status = 200 /\ requests[k].response.status = 200
    /\ requests[j].response.data.due_date # requests[k].response.data.due_date

\* C21: a failure of generateObject is reported by either handler with the
\* category and the HTTP status with which the other handler reports it
C21_SameClassification ==
  pc = "replied" /\ outcome.kind = "error" =>
    LET other == IF route = "generate-todo"
                   THEN analyzeCatch(outcome.error)
                   ELSE generateCatch(outcome.error)
    IN response.error = other.error /\ response.status = other.status

(***************************************************************************)
(* The main list of the page: search, filters and sort (page.tsx lines     *)
(* 80-147).  A due_date or created_date is kept by the Date it parses to;  *)
(* the rows come from the table, whose timestamps are valid and whose      *)
(* priority is one of the three.                                           *)
(***************************************************************************)
\* the longest list the page holds
MaxViewTodos == 2

\* a task held by the page (interface Todo), without its category
ViewTodo(id, title, description, created_date, due_date, priority, completed) ==
  [id |-> id, title |-> title, description |-> description,
   created_date |-> created_date, due_date |-> due_date,
   priority |-> priority, completed |-> completed]

\* the day and the two instants at which the list is computed: in the
\* morning and in the afternoon of that day
ViewDay == MakeDay(2026, 3, 5)
ViewInstants == {[y |-> 2026, m |-> 3, d |-> 5, h |-> 9],
                 [y |-> 2026, m |-> 3, d |-> 5, h |-> 15]}

\* the tasks of the lists: titles and descriptions with and without the
\* letters searched for, due before the day, on the day and after it
ViewTodos ==
  {ViewTodo(1, <<"a", "b">>, Null, 1, Null, "high", FALSE),
   ViewTodo(2, <<"A", "b">>, Str(<<"c">>), 2, DueAt(ViewDay - 1, 20), "medium", FALSE),
   ViewTodo(3, <<"c">>, Str(<<"a", "b">>), 3, DueAt(ViewDay, 12), "high", FALSE),
   ViewTodo(4, <<"b">>, Undefined, 4, DueAt(ViewDay + 1, 9), "low", FALSE),
   ViewTodo(5, <<"b", "c">>, Str(<<>>), 5, DueAt(ViewDay - 1, 20), "low", TRUE)}
ViewLists ==
  {l \in SeqsUpTo(ViewTodos, MaxViewTodos) :
     \A i, j \in DOMAIN l : i # j => l[i].id # l[j].id}
Queries == {<<>>, <<"a">>, <<"A", "B">>, <<"c">>}
FilterStatuses == {"all", "active", "completed", "overdue"}
FilterPriorities == {"all", "high", "low"}
SortOptions == {"priority", "due_date", "created_date", "title"}

\* the letters of the titles, in alphabetical order, small and capital
smallLetters == <<"a", "b", "c">>
capitalLetters == <<"A", "B", "C">>
LetterRank(c) ==
  CHOOSE i \in 1..Len(smallLetters) : smallLetters[i] = c \/ capitalLetters[i] = c

\* String.prototype.toLowerCase
toLowerCase(s) ==
  [i \in 1..Len(s) |->
     IF \E k \in 1..Len(capitalLetters) : capitalLetters[k] = s[i]
       THEN smallLetters[LetterRank(s[i])] ELSE s[i]]

\* String.prototype.includes
stringIncludes(s, q) ==
  \E i \in 0..(Len(s) - Len(q)) : SubSeq(s, i + 1, i + Len(q)) = q

\* a.localeCompare(b, "ko") for strings of these letters: by the letters
\* first, then, for the same letters, the small letter before the capital
localeCompare(a, b) ==
  LET la == toLowerCase(a)
      lb == toLowerCase(b)
      n == IF Len(a) < Len(b) THEN Len(a) ELSE Len(b)
      differ == {i \in 1..n : la[i] # lb[i]}
      cased == {i \in 1..n : a[i] # b[i]}
      First(S) == CHOOSE i \in S : \A j \in S : i <= j
  IN IF differ # {}
       THEN LetterRank(la[First(differ)]) - LetterRank(lb[First(differ)])
     ELSE IF Len(a) # Len(b) THEN Len(a) - Len(b)
     ELSE IF cased = {} THEN 0
     ELSE IF a[First(cased)] = la[First(cased)] THEN -1 ELSE 1

\* lines 109-110
priorityOrder(priority) ==
  IF priority = "high" THEN 3 ELSE IF priority = "medium" THEN 2 ELSE 1

\* new Date(due_date).getTime(), in hours
getTime(date) == date.day * 24 + date.hour

\* the comparator of filtered.sort, lines 107-140
compareTodos(a, b, option) ==
  CASE option = "priority" ->
         IF priorityOrder(b.priority) # priorityOrder(a.priority)
           THEN priorityOrder(b.priority) - priorityOrder(a.priority)
         ELSE IF ~Falsy(a.due_date) /\ ~Falsy(b.due_date)
           THEN getTime(a.due_date) - getTime(b.due_date)
         ELSE 0
    [] option = "due_date" ->
         IF Falsy(a.due_date) /\ Falsy(b.due_date) THEN 0
         ELSE IF Falsy(a.due_date) THEN 1
         ELSE IF Falsy(b.due_date) THEN -1
         ELSE getTime(a.due_date) - getTime(b.due_date)
    [] option = "created_date" -> b.created_date - a.created_date
    [] option = "title" -> localeCompare(a.title, b.title)
    [] OTHER -> 0

\* Array.prototype.sort, which is stable: each task in turn is put behind
\* the last of the tasks already placed that the comparator does not put
\* after it
RECURSIVE sorted(_, _)
sorted(list, option) ==
  IF Len(list) <= 1 THEN list
  ELSE LET front == sorted(SubSeq(list, 1, Len(list) - 1), option)
           x == list[Len(list)]
           notAfter == {k \in 1..Len(front) : compareTodos(front[k], x, option) <= 0}
           at == IF notAfter = {} THEN 0
                 ELSE CHOOSE k \in notAfter : \A j \in notAfter : j <= k
       IN SubSeq(front, 1, at) \o <<x>> \o SubSeq(front, at + 1, Len(front))

\* lines 91-104
statusFilter(todo, status, instant) ==
  CASE status = "active" -> ~todo.completed
    [] status = "completed" -> todo.completed
    [] status = "overdue" ->
         /\ ~todo.completed
         /\ ~Falsy(todo.due_date)
         /\ Before(todo.due_date, instant)
    [] OTHER -> TRUE

\* lines 83-89
searchFilter(todo, query) ==
  query = <<>> \/ stringIncludes(toLowerCase(todo.title), toLowerCase(query))

\* lines 80-147
filteredAndSortedTodos(list, query, status, priority, option, instant) ==
  LET Kept(todo) ==
        /\ searchFilter(todo, query)
        /\ statusFilter(todo, status, instant)
        /\ priority # "all" => todo.priority = priority
  IN sorted(SelectSeq(list, Kept), option)

\* a render after a change of one of the dependencies of the memo
Rendered(instant) ==
  /\ viewNow' = instant
  /\ filtered' = filteredAndSortedTodos(viewTodos', searchQuery', filterStatus',
                                        filterPriority', sortOption', instant)
  /\ UNCHANGED <<handlerVars, storeVars, pageVars, panelVars, guardVars>>

\* setTodos, lines 158 and 187
setTodos(list, instant) ==
  /\ viewTodos' = list
  /\ UNCHANGED <<searchQuery, filterStatus, filterPriority, sortOption>>
  /\ Rendered(instant)

setSearchQuery(query, instant) ==
  /\ searchQuery' = query
  /\ UNCHANGED <<viewTodos, filterStatus, filterPriority, sortOption>>
  /\ Rendered(instant)

setFilterStatus(status, instant) ==
  /\ filterStatus' = status
  /\ UNCHANGED <<viewTodos, searchQuery, filterPriority, sortOption>>
  /\ Rendered(instant)

setFilterPriority(priority, instant) ==
  /\ filterPriority' = priority
  /\ UNCHANGED <<viewTodos, searchQuery, filterStatus, sortOption>>
  /\ Rendered(instant)

setSortOption(option, instant) ==
  /\ sortOption' = option
  /\ UNCHANGED <<viewTodos, searchQuery, filterStatus, filterPriority>>
  /\ Rendered(instant)

NextList ==
  \/ \E list \in ViewLists, instant \in ViewInstants : setTodos(list, instant)
  \/ \E query \in Queries, instant \in ViewInstants : setSearchQuery(query, instant)
  \/ \E status \in FilterStatuses, instant \in ViewInstants :
       setFilterStatus(status, instant)
  \/ \E priority \in FilterPriorities, instant \in ViewInstants :
       setFilterPriority(priority, instant)
  \/ \E option \in SortOptions, instant \in ViewInstants : setSortOption(option, instant)

SpecList == Init /\ [][NextList]_vars

\* the ids of the tasks shown
ShownIds == {filtered[i].id : i \in DOMAIN filtered}

\* the title or the description of the task contains the text, whatever the
\* case of the letters
searchFilterWithDescription(todo, query) ==
  \/ query = <<>>
  \/ stringIncludes(toLowerCase(todo.title), toLowerCase(query))
  \/ /\ IsString(todo.description)
     /\ stringIncludes(toLowerCase(todo.description.s), toLowerCase(query))

\* C22: with no other filter set, the list shows exactly the tasks whose
\* title or description contains the text searched for (whatever the case of
\* the letters)
C22_SearchTitleOrDescription ==
  filterStatus = "all" /\ filterPriority = "all" =>
    ShownIds = {viewTodos[i].id : i \in
                  {j \in DOMAIN viewTodos :
                     searchFilterWithDescription(viewTodos[j], searchQuery)}}

\* a task is due before the day of the instant
DueBeforeDay(todo, instant) ==
  /\ ~Falsy(todo.due_date)
  /\ todo.due_date.day < MakeDay(instant.y, instant.m, instant.d)

\* C23: with no search and no priority filter, "active" shows exactly the
\* open tasks not due before today, "completed" the completed ones and
\* "overdue" the open tasks due before today
C23_StatusPartition ==
  searchQuery = <<>> /\ filterPriority = "all" =>
    LET Ids(P(_)) == {viewTodos[i].id : i \in {j \in DOMAIN viewTodos : P(viewTodos[j])}}
        Active(todo) == ~todo.completed /\ ~DueBeforeDay(todo, viewNow)
        Completed(todo) == todo.completed
        Overdue(todo) == ~todo.completed /\ DueBeforeDay(todo, viewNow)
    IN /\ filterStatus = "active" => ShownIds = Ids(Active)
       /\ filterStatus = "completed" => ShownIds = Ids(Completed)
       /\ filterStatus = "overdue" => ShownIds = Ids(Overdue)

\* every stored task is owned by an identity that has a profile row
OwnersExist ==
  \A i \in DOMAIN todoRows :
    todoRows[i].exists =>
      todoRows[i].user_id \in Uids /\ users[todoRows[i].user_id].exists

\* the step removes the profile row of u
ProfileDeleted(u) == users[u].exists /\ ~users'[u].exists

\* the step stores a task for handleAddTodo
TaskAdded(i) ==
  /\ pagePc \in {"insertTodo", "insertTodoAgain"}
  /\ ~todoRows[i].exists
  /\ todoRows'[i].exists

\* C24: a step that deletes a profile leaves no task of that owner; after
\* every step each stored task is owned by an identity with a profile row;
\* and when handleAddTodo has stored its task, the task is owned by the
\* authenticated identity and that identity has a profile row
C24_OwnersHaveProfiles ==
  [][/\ \A u \in Uids :
          ProfileDeleted(u) =>
            \A i \in DOMAIN todoRows :
              ~(todoRows'[i].exists /\ todoRows'[i].user_id = u)
     /\ OwnersExist'
     /\ \A i \in DOMAIN todoRows :
          TaskAdded(i) =>
            /\ todoRows'[i].user_id = locals.authUser
            /\ users'[locals.authUser].exists]_vars

\* handleAddTodo found no profile row for the authenticated identity,
\* inserted one and then stored the task
C24_Witness ==
  /\ pagePc = "load.getUser"
  /\ Len(storageCalls) = 5
  /\ storageCalls[2] = [call |-> "select users", failed |-> TRUE]
  /\ storageCalls[3] = [call |-> "insert users", failed |-> FALSE]
  /\ storageCalls[4] = [call |-> "insert todos", failed |-> FALSE]
  /\ users[locals.authUser].exists
  /\ \E i \in DOMAIN todoRows :
       todoRows[i].exists /\ todoRows[i].user_id = locals.authUser

\* the tasks of the request whose due_date is set and satisfies a condition
\* on the hour of the day, and those of them that are completed
DueTasks == {i \in 1..Len(body.todos.a) : body.todos.a[i].due_date.t = "timestamp"}
DueInHours(from, to) ==
  {i \in DueTasks :
     LET due == body.todos.a[i].due_date IN
     ~due.nan /\ from <= due.hour /\ due.hour < to}
DueNoDate == {i \in DueTasks : body.todos.a[i].due_date.nan}
CompletedOf(tasks) == {i \in tasks : body.todos.a[i].completed}

AnchorNows ==
  {[y |-> DateOfDay(n).y, m |-> DateOfDay(n).m, d |-> DateOfDay(n).d, zone |-> z] :
     n \in MakeDay(2026, 2, 23)..MakeDay(2026, 3, 8), z \in {-1, 0, 1}}
AnchorInputs == {Str(Padded(Rep("a", minInputLength), MaxPad))}
AnchorReplies ==
  {TodoObject(Str(<<"a", "b">>), Undefined, dd, Undefined, Str(low), Undefined) :
     dd \in {Str(DateStr(2026, 3, 1)), Undefined}}

NextAnchors ==
  \/ \E input \in AnchorInputs, date \in AnchorNows : GeneratePost(input, date)
  \/ \E raw \in AnchorReplies : GenerateObjectReturns(raw)
  \/ RequestDone

SpecAnchors == InitStore /\ [][NextAnchors]_vars

\* the weekday, 0 for Sunday, of the date a string of the prompt names, and
\* its distance in days from the date named as today
WeekdayOf(s) == (parsedDate(s).day + 4) % 7
DaysAfterToday(s) == parsedDate(s).day - parsedDate(prompt.today).day

\* C26: the Friday anchor is a Friday 1 to 7 days after today, the Monday
\* anchor a Monday 1 to 7 days after today (the Monday that follows the week
\* of today), tomorrow is today plus 1 day and the day after tomorrow today
\* plus 2 days
C26_Anchors ==
  route = "generate-todo" /\ prompt # None =>
    /\ WeekdayOf(prompt.thisFridayDate) = 5
    /\ DaysAfterToday(prompt.thisFridayDate) \in 1..7
    /\ WeekdayOf(prompt.nextMondayDate) = 1
    /\ DaysAfterToday(prompt.nextMondayDate) \in 1..7
    /\ DaysAfterToday(prompt.tomorrowDate) = 1
    /\ DaysAfterToday(prompt.dayAfterTomorrowDate) = 2

(***************************************************************************)
(* The analysis panel of the page (handleAnalyzeTodos and the two tabs)    *)
(* and the AI input of the task form (handleAiGenerate).  A call of a      *)
(* handler runs to its await of fetch in one step and from the settling of *)
(* fetch to its end in another.  The narrative of a reply is kept by the   *)
(* request it answers.                                                     *)
(***************************************************************************)
\* the task lists the page holds while the panel is used
PanelLists ==
  {<<>>,
   <<ViewTodo(3, <<"c">>, Null, 3, DueAt(ViewDay, 12), "high", FALSE)>>,
   <<ViewTodo(2, <<"b">>, Null, 2, DueAt(ViewDay - 1, 20), "medium", TRUE),
     ViewTodo(3, <<"c">>, Null, 3, DueAt(ViewDay, 12), "high", FALSE)>>}
PanelInstant == [y |-> 2026, m |-> 3, d |-> 5, h |-> 9]
AiInputs == {<<>>, <<" ">>, <<"a", "b">>}

\* the messages of the panel and of the form
nothingToAnalyze == "nothing to analyze"
analysisFailed == "analysis failed"
generationFailed == "generation failed"
inputRequired == "input required"

\* lines 582-609: the tasks due in the period of the instant, today or the
\* week from Monday to Sunday
duringPeriod(todo, period, instant) ==
  LET day == MakeDay(instant.y, instant.m, instant.d)
      dayOfWeek == (day + 4) % 7
      weekStart == day - dayOfWeek + (IF dayOfWeek = 0 THEN -6 ELSE 1)
  IN /\ ~Falsy(todo.due_date)
     /\ IF period = "today"
          THEN todo.due_date.day = day
          ELSE weekStart <= todo.due_date.day /\ todo.due_date.day < weekStart + 7

\* lines 635-642: the statistics kept for the tab
statsOf(filteredTodos) ==
  LET Completed(t) == t.completed
      completedCount == Len(SelectSeq(filteredTodos, Completed))
  IN [total |-> Len(filteredTodos), completed |-> completedCount,
      rate |-> percentage(completedCount, Len(filteredTodos)),
      todos |-> filteredTodos]

\* the narrative the route returns for a request
Narrative(period, filteredTodos) ==
  [t |-> "object", period |-> period, todos |-> filteredTodos]

\* a button of the tab that starts the analysis can be pressed although an
\* analysis is running
analyzeButtonAlways(period) == analysisPeriod = period

\* lines 844-848 and 862-878 (1012-1016 and 1030-1046 for the week): a button
\* of the tab shown starts the analysis of the period
analyzeButton(period) ==
  /\ analysisPeriod = period
  /\ \/ /\ \/ (IF period = "today" THEN todayStats ELSE weekStats) = Null
           \/ analysisResult = Null
        /\ ~isAnalyzing
     \/ analysisError # NoText

\* line 837: a tab is chosen
setAnalysisPeriod(value) ==
  /\ analysisPeriod' = value
  /\ UNCHANGED <<isAnalyzing, analysisResult, analysisError, todayStats, weekStats,
                 analyzeRuns, aiInput, isGenerating, aiError, form, generateRuns>>
  /\ UNCHANGED <<handlerVars, storeVars, pageVars, listVars, guardVars>>

\* handleAnalyzeTodos, lines 575-624: to the await of fetch, or to the end
\* when no task is due in the period
handleAnalyzeTodos(period, instant) ==
  /\ analyzeButton(period)
  /\ LET InPeriod(todo) == duringPeriod(todo, period, instant)
         filteredTodos == SelectSeq(viewTodos, InPeriod)
     IN /\ analysisResult' = Null
        /\ IF Len(filteredTodos) = 0
             THEN /\ analysisError' = nothingToAnalyze
                  /\ isAnalyzing' = FALSE
                  /\ UNCHANGED analyzeRuns
             ELSE /\ analysisError' = NoText
                  /\ isAnalyzing' = TRUE
                  /\ analyzeRuns' = Append(analyzeRuns,
                                           [period |-> period, todos |-> filteredTodos])
  /\ UNCHANGED <<analysisPeriod, todayStats, weekStats,
                 aiInput, isGenerating, aiError, form, generateRuns>>
  /\ UNCHANGED <<handlerVars, storeVars, pageVars, listVars, guardVars>>

\* the sequence without its i-th element
Without(runs, i) == SubSeq(runs, 1, i - 1) \o SubSeq(runs, i + 1, Len(runs))

\* handleAnalyzeTodos, lines 624-648: fetch has settled with a reply that is
\* ok and successful
AnalyzeSucceeded(i) ==
  /\ i \in DOMAIN analyzeRuns
  /\ LET run == analyzeRuns[i] IN
     /\ analysisResult' = Narrative(run.period, run.todos)
     /\ IF run.period = "today"
          THEN todayStats' = statsOf(run.todos) /\ UNCHANGED weekStats
          ELSE weekStats' = statsOf(run.todos) /\ UNCHANGED todayStats
  /\ isAnalyzing' = FALSE
  /\ analyzeRuns' = Without(analyzeRuns, i)
  /\ UNCHANGED <<analysisPeriod, analysisError,
                 aiInput, isGenerating, aiError, form, generateRuns>>
  /\ UNCHANGED <<handlerVars, storeVars, pageVars, listVars, guardVars>>

\* handleAnalyzeTodos, lines 624-648: fetch or response.json() has thrown, or
\* the reply is not ok or not successful
AnalyzeFailed(i) ==
  /\ i \in DOMAIN analyzeRuns
  /\ analysisError' = analysisFailed
  /\ isAnalyzing' = FALSE
  /\ analyzeRuns' = Without(analyzeRuns, i)
  /\ UNCHANGED <<analysisPeriod, analysisResult, todayStats, weekStats,
                 aiInput, isGenerating, aiError, form, generateRuns>>
  /\ UNCHANGED <<handlerVars, storeVars, pageVars, listVars, guardVars>>

\* part_003 lines 184-190: the text of the AI input is changed, which the
\* text area allows while no generation is running
setAiInput(value) ==
  /\ ~isGenerating
  /\ aiInput' = value
  /\ aiError' = NoText
  /\ UNCHANGED <<analysisPeriod, isAnalyzing, analysisResult, analysisError,
                 todayStats, weekStats, analyzeRuns, isGenerating, form, generateRuns>>
  /\ UNCHANGED <<handlerVars, storeVars, pageVars, listVars, guardVars>>

\* part_003 lines 196-202: the button is enabled
generateButton == ~isGenerating /\ Len(Trim(aiInput)) > 0

\* handleAiGenerate, part_003 lines 78-96: to the await of fetch
handleAiGenerate ==
  /\ generateButton
  /\ IF Len(Trim(aiInput)) = 0
       THEN /\ aiError' = inputRequired
            /\ UNCHANGED <<isGenerating, generateRuns>>
       ELSE /\ isGenerating' = TRUE
            /\ aiError' = NoText
            /\ generateRuns' = Append(generateRuns, [naturalLanguageInput |-> Trim(aiInput)])
  /\ UNCHANGED <<analysisPeriod, isAnalyzing, analysisResult, analysisError,
                 todayStats, weekStats, analyzeRuns, aiInput, form>>
  /\ UNCHANGED <<handlerVars, storeVars, pageVars, listVars, guardVars>>

\* what generate-todo returns as data
GeneratedTodos ==
  {TodoObject(Str(<<"a", "b">>), de, Str(DateStr(2026, 3, 10)), Str(defaultTime),
              Str(low), Arr(<<>>)) : de \in {Str(<<>>), Str(<<"d">>)}}

\* handleAiGenerate, part_003 lines 96-141: fetch has settled with a reply
\* that is ok and successful
GenerateSucceeded(i, todoData) ==
  /\ i \in DOMAIN generateRuns
  /\ form' = [filled |-> TRUE,
              title |-> todoData.title,
              description |-> IF Falsy(todoData.description)
                                THEN <<aiInput>>
                                ELSE <<todoData.description.s, aiInput>>,
              due_date |-> todoData.due_date,
              due_time |-> todoData.due_time,
              priority |-> todoData.priority,
              category |-> todoData.category]
  /\ aiInput' = <<>>
  /\ isGenerating' = FALSE
  /\ generateRuns' = Without(generateRuns, i)
  /\ UNCHANGED <<analysisPeriod, isAnalyzing, analysisResult, analysisError,
                 todayStats, weekStats, analyzeRuns, aiError>>
  /\ UNCHANGED <<handlerVars, storeVars, pageVars, listVars, guardVars>>

\* handleAiGenerate, part_003 lines 96-141: fetch or response.json() has
\* thrown, or the reply is not ok or not successful
GenerateFailed(i) ==
  /\ i \in DOMAIN generateRuns
  /\ aiError' = generationFailed
  /\ isGenerating' = FALSE
  /\ generateRuns' = Without(generateRuns, i)
  /\ UNCHANGED <<analysisPeriod, isAnalyzing, analysisResult, analysisError,
                 todayStats, weekStats, analyzeRuns, aiInput, form>>
  /\ UNCHANGED <<handlerVars, storeVars, pageVars, listVars, guardVars>>

AnalyzeSettles == \E i \in DOMAIN analyzeRuns : AnalyzeSucceeded(i) \/ AnalyzeFailed(i)
GenerateSettles ==
  \E i \in DOMAIN generateRuns :
    GenerateFailed(i) \/ \E todoData \in GeneratedTodos : GenerateSucceeded(i, todoData)

NextPanel ==
  \/ \E list \in PanelLists : setTodos(list, PanelInstant)
  \/ \E value \in {"today", "week"} : setAnalysisPeriod(value)
  \/ \E period \in {"today", "week"} : handleAnalyzeTodos(period, PanelInstant)
  \/ \E i \in DOMAIN analyzeRuns : AnalyzeSucceeded(i)
  \/ \E i \in DOMAIN analyzeRuns : AnalyzeFailed(i)
  \/ \E value \in AiInputs : setAiInput(value)
  \/ handleAiGenerate
  \/ \E i \in DOMAIN generateRuns, todoData \in GeneratedTodos :
       GenerateSucceeded(i, todoData)
  \/ \E i \in DOMAIN generateRuns : GenerateFailed(i)

SpecPanel == InitStore /\ [][NextPanel]_vars

\* every fetch settles
SpecPanelFair ==
  SpecPanel /\ WF_vars(AnalyzeSettles) /\ WF_vars(GenerateSettles)

\* C27: the narrative shown in the tab of a period, beside the statistics of
\* that period, is the narrative of an analysis of that period and of the
\* tasks of those statistics
C27_NarrativeOfTab ==
  LET stats == IF analysisPeriod = "today" THEN todayStats ELSE weekStats IN
  analysisResult # Null /\ stats # Null =>
    /\ analysisResult.period = analysisPeriod
    /\ analysisResult.todos = stats.todos

\* a request of each kind is in progress exactly while its flag is set, and
\* there is at most one of each kind
OneRequestWhileFlagged ==
  /\ Len(analyzeRuns) <= 1
  /\ Len(generateRuns) <= 1
  /\ isAnalyzing <=> Len(analyzeRuns) = 1
  /\ isGenerating <=> Len(generateRuns) = 1

\* C29: while isAnalyzing or isGenerating is set there is one request of
\* that kind in progress and no second one is started; once fetch has
\* settled, with success or with failure, the flag is cleared, and an
\* analysis of a period without tasks leaves the flag cleared
C29_FlagsCleared ==
  /\ []OneRequestWhileFlagged
  /\ isAnalyzing ~> ~isAnalyzing
  /\ isGenerating ~> ~isGenerating
  /\ [][analysisError' = nothingToAnalyze /\ analysisError # nothingToAnalyze
          => ~isAnalyzing']_vars

\* an analysis and a generation are in progress at once
C29_Witness ==
  /\ isAnalyzing
  /\ isGenerating
  /\ Len(analyzeRuns) = 1
  /\ Len(generateRuns) = 1

(***************************************************************************)
(* AuthGuard (part_002 lines 18-92).  The page of "/" mounts it with       *)
(* requireAuth true, the pages of "/login" and "/signup" with requireAuth  *)
(* false.  router.push starts a navigation; until the page pushed is       *)
(* shown, the page it was pushed from stays rendered.                      *)
(***************************************************************************)
\* the callbacks of setTimeout that may be waiting at once
MaxTimers == 1

\* page.tsx line 674, part_004 line 447, part_005 line 149
requireAuthOn(path) == path = "/"
requireAuth == requireAuthOn(pathname)
redirectTo == "/login"

\* lines 84-92: the guard renders its children
childrenShown == ~isChecking

\* lines 29-52: the path checkAuth pushes, or the last path pushed when it
\* pushes none; path is the pathname the guard was rendered with
checkAuthPush(path, settled) ==
  IF settled = "threw"
    THEN IF requireAuthOn(path) THEN redirectTo ELSE pushedTo
  ELSE IF requireAuthOn(path) /\ settled = "none" THEN redirectTo
  ELSE IF ~requireAuthOn(path) /\ settled = "user" /\ path \in {"/login", "/signup"}
    THEN "/"
  ELSE pushedTo

\* lines 29-56: getUser has settled: with the user of the session, without
\* a user, or by throwing
CheckAuth(settled) ==
  /\ found = "pending"
  /\ settled \in {IF authSession THEN "user" ELSE "none", "threw"}
  /\ found' = settled
  /\ isChecking' = FALSE
  /\ pushedTo' = checkAuthPush(pathname, settled)
  /\ UNCHANGED <<authSession, pathname, timers, unmounted>>
  /\ UNCHANGED <<handlerVars, storeVars, pageVars, listVars, panelVars>>

\* lines 29-56 in a guard that has been unmounted: the push is issued all
\* the same, setIsChecking is of no effect
CheckAuthUnmounted(path, settled) ==
  /\ path \in unmounted
  /\ settled \in {IF authSession THEN "user" ELSE "none", "threw"}
  /\ unmounted' = unmounted \ {path}
  /\ pushedTo' = checkAuthPush(path, settled)
  /\ UNCHANGED <<authSession, pathname, isChecking, found, timers>>
  /\ UNCHANGED <<handlerVars, storeVars, pageVars, listVars, panelVars>>

\* lines 62-78: the session begins or ends and the callback of
\* onAuthStateChange runs
AuthStateChange(signedIn) ==
  /\ authSession' = signedIn
  /\ IF requireAuth /\ ~signedIn
       THEN pushedTo' = redirectTo /\ UNCHANGED timers
     ELSE IF ~requireAuth /\ signedIn /\ pathname \in {"/login", "/signup"}
       THEN timers < MaxTimers /\ timers' = timers + 1 /\ UNCHANGED pushedTo
     ELSE UNCHANGED <<pushedTo, timers>>
  /\ UNCHANGED <<pathname, isChecking, found, unmounted>>
  /\ UNCHANGED <<handlerVars, storeVars, pageVars, listVars, panelVars>>

\* lines 73-75: the callback of setTimeout runs; the cleanup of the effect
\* (lines 79-81) does not clear it
TimerFires ==
  /\ timers > 0
  /\ timers' = timers - 1
  /\ pushedTo' = "/"
  /\ UNCHANGED <<authSession, pathname, isChecking, found, unmounted>>
  /\ UNCHANGED <<handlerVars, storeVars, pageVars, listVars, panelVars>>

\* the page pushed is shown: the guard of the page left is unmounted and
\* unsubscribed, the guard of the page shown is mounted and its checkAuth
\* awaits getUser
Navigated ==
  /\ pushedTo # NoText
  /\ pathname' = pushedTo
  /\ pushedTo' = NoText
  /\ isChecking' = TRUE
  /\ found' = "pending"
  /\ unmounted' = IF found = "pending" THEN unmounted \cup {pathname} ELSE unmounted
  /\ UNCHANGED <<authSession, timers>>
  /\ UNCHANGED <<handlerVars, storeVars, pageVars, listVars, panelVars>>

\* the browser loads the page of a path anew: the guard of the page is
\* mounted, and nothing of the page left goes on running
Opened(path) ==
  /\ pathname' = path
  /\ pushedTo' = NoText
  /\ isChecking' = TRUE
  /\ found' = "pending"
  /\ timers' = 0
  /\ unmounted' = {}
  /\ UNCHANGED authSession
  /\ UNCHANGED <<handlerVars, storeVars, pageVars, listVars, panelVars>>

NextGuard ==
  \/ \E path \in {"/", "/login", "/signup"} : Opened(path)
  \/ \E settled \in {"user", "none", "threw"} : CheckAuth(settled)
  \/ \E path \in {"/", "/login", "/signup"}, settled \in {"user", "none", "threw"} :
       CheckAuthUnmounted(path, settled)
  \/ \E signedIn \in BOOLEAN : AuthStateChange(signedIn)
  \/ TimerFires
  \/ Navigated

SpecGuard == InitStore /\ [][NextGuard]_vars

\* C28: on the page that requires a user, once checkAuth has found no user
\* or has thrown, the redirect is issued and the children are not shown
C28_NoChildrenWithoutUser ==
  requireAuth /\ found \in {"none", "threw"} =>
    pushedTo = redirectTo /\ ~childrenShown

(***************************************************************************)
(* The frame of handleToggleComplete and handleUpdateTodo (page.tsx lines  *)
(* 443-476 and 362-404) on the rows of public.todos.                       *)
(***************************************************************************)
\* the update of handleToggleComplete or handleUpdateTodo settles in this
\* step
ToggleSettles == pagePc = "toggle" /\ pagePc' # "toggle"
EditSettles == pagePc = "update" /\ pagePc' # "update"

\* getUser settles without a user in handleToggleComplete or handleUpdateTodo
NoUserFound ==
  /\ pagePc = "getUser"
  /\ locals.handler \in {"toggle", "update"}
  /\ pagePc' = "returned"

\* every row of public.todos but the row of the id is as it was
OthersUnchanged(id) ==
  \A i \in DOMAIN todoRows : i # id => todoRows'[i] = todoRows[i]

====
